---- MODULE Spec2Model ----
(***************************************************************************)
(* State-machine model of the limbo-game simulation core:                  *)
(*   collision primitives (utils/collision.ts), player kinematics,         *)
(*   pushables and moving platforms (game/physics.ts), the soft-spring     *)
(*   rope solver and grab protocol, and the per-frame orchestrator         *)
(*   (components/game/Game.tsx).                                           *)
(*                                                                         *)
(* Numbers.  The program computes in IEEE doubles.  The model computes in  *)
(* fixed point: a length, a velocity and a normalised delta-time are       *)
(* integers counting 1/SCALE of the program's unit, and every product or   *)
(* quotient is truncated toward zero (Mul, TDiv).  Snaps and clamps, which *)
(* the program does by assignment, are exact in both.                      *)
(***************************************************************************)
EXTENDS Integers, Sequences, FiniteSets, TLC

VARIABLES
  gs,               \* the GameState of Game.tsx
  showStartScreen,  \* Game.tsx's second state cell
  timers,           \* pending setTimeout(nextLevel, 500) callbacks, oldest first
  levels,           \* the levels array; pushables' velocity objects are shared with it
  hist,             \* the last event: its name, input, dt and the state before it
  inputState,       \* the InputState cell of useInput
  heldKeys          \* the key codes that are physically down

vars == <<gs, showStartScreen, timers, levels, hist, inputState, heldKeys>>

-----------------------------------------------------------------------------
(* Fixed-point arithmetic *)

SCALE == 10 * 10

Abs(a) == IF a < 0 THEN -a ELSE a

Min(a, b) == IF a < b THEN a ELSE b

Max(a, b) == IF a > b THEN a ELSE b

\* quotient truncated toward zero, b > 0
TDiv(a, b) == IF a >= 0 THEN a \div b ELSE -((-a) \div b)

\* product of two fixed-point numbers
Mul(a, b) == TDiv(a * b, SCALE)

\* collision.ts clamp: Math.max(min, Math.min(max, value))
clamp(value, lo, hi) == Max(lo, Min(hi, value))

\* `const x = e; ... x ...`: e is computed once and F is applied to its value
Let(e, F(_)) == CHOOSE r \in {F(x) : x \in {e}} : TRUE

\* deltaTime / 16.67 for the frame times the model steps with; useGameLoop
\* caps deltaTime at 50 ms, so the normalised dt is at most 50/16.67 = 2.9994
FRAME_CAP_DT == 299

-----------------------------------------------------------------------------
(* Program constants (game/constants.ts), in fixed point *)

gravity == 80

playerSpeed == 500

playerJumpForce == 1500

maxFallSpeed == 1800

PLAYER_WIDTH == 3000

PLAYER_HEIGHT == 5000

PUSH_SPEED == 200

ROPE_GRAB_DISTANCE == 6000

-----------------------------------------------------------------------------
(* Entities (types/game.ts) *)

NoConfig ==
  [present |-> FALSE, startX |-> 0, endX |-> 0, startY |-> 0, endY |-> 0,
   speed |-> 0, currentDirection |-> 1]

Platform(id, x, y, w, h, type) ==
  [id |-> id, x |-> x, y |-> y, width |-> w, height |-> h, type |-> type,
   movingConfig |-> NoConfig]

MovingPlatform(id, x, y, w, h, sx, ex, sy, ey, speed, dir) ==
  [id |-> id, x |-> x, y |-> y, width |-> w, height |-> h, type |-> "moving",
   movingConfig |-> [present |-> TRUE, startX |-> sx, endX |-> ex,
                     startY |-> sy, endY |-> ey, speed |-> speed,
                     currentDirection |-> dir]]

-----------------------------------------------------------------------------
(* physics.ts updateMovingPlatforms *)

\* mutant: the end of the path reverses the platform without clamping it
MoveAxisX_NoClamp(p, dt) ==
  LET c == p.movingConfig
      x1 == p.x + Mul(c.speed * c.currentDirection, dt)
  IN  IF c.startX # c.endX
      THEN IF x1 >= c.endX THEN <<x1, -1, "end">>
           ELSE IF x1 <= c.startX THEN <<c.startX, 1, "start">>
           ELSE <<x1, c.currentDirection, "none">>
      ELSE <<p.x, c.currentDirection, "off">>

\* mutant: an endpoint negates the direction instead of setting it
MoveAxisX_Negate(p, dt) ==
  LET c == p.movingConfig
      x1 == p.x + Mul(c.speed * c.currentDirection, dt)
  IN  IF c.startX # c.endX
      THEN IF x1 >= c.endX THEN <<c.endX, -c.currentDirection, "end">>
           ELSE IF x1 <= c.startX THEN <<c.startX, -c.currentDirection, "start">>
           ELSE <<x1, c.currentDirection, "none">>
      ELSE <<p.x, c.currentDirection, "off">>

\* the horizontal block: <<x, currentDirection, clamped>>
MoveAxisX(p, dt) ==
  LET c == p.movingConfig
      x1 == p.x + Mul(c.speed * c.currentDirection, dt)
  IN  IF c.startX # c.endX
      THEN IF x1 >= c.endX THEN <<c.endX, -1, "end">>
           ELSE IF x1 <= c.startX THEN <<c.startX, 1, "start">>
           ELSE <<x1, c.currentDirection, "none">>
      ELSE <<p.x, c.currentDirection, "off">>

\* the vertical block; it reads the direction of the old config and, when it
\* does not clamp, leaves the direction the horizontal block left
MoveAxisY(p, dt, dirAfterX) ==
  LET c == p.movingConfig
      y1 == p.y + Mul(c.speed * c.currentDirection, dt)
  IN  IF c.startY # c.endY
      THEN IF y1 >= c.endY THEN <<c.endY, -1, "end">>
           ELSE IF y1 <= c.startY THEN <<c.startY, 1, "start">>
           ELSE <<y1, dirAfterX, "none">>
      ELSE <<p.y, dirAfterX, "off">>

updateMovingPlatform(p, dt) ==
  IF p.type # "moving" \/ ~p.movingConfig.present
  THEN p
  ELSE LET hx == MoveAxisX(p, dt)
           vy == MoveAxisY(p, dt, hx[2])
       IN  [p EXCEPT !.x = hx[1], !.y = vy[1],
                     !.movingConfig.currentDirection = vy[2]]

updateMovingPlatforms(platforms, dt) ==
  [i \in 1..Len(platforms) |-> updateMovingPlatform(platforms[i], dt)]

-----------------------------------------------------------------------------
(* utils/collision.ts *)

rectIntersect(a, b) ==
  /\ a.x < b.x + b.width
  /\ a.x + a.width > b.x
  /\ a.y < b.y + b.height
  /\ a.y + a.height > b.y

getPlayerRect(player) ==
  [x |-> player.x, y |-> player.y, width |-> PLAYER_WIDTH, height |-> PLAYER_HEIGHT]

NoCollision == [collides |-> FALSE, direction |-> "null", overlap |-> 0]

\* the minimum-overlap classification shared by platforms and pushables
\* the direction choice with equal axis minima resolved horizontally
MinOverlapDirection_TieHorizontal(playerRect, r) ==
  LET overlapLeft   == playerRect.x + playerRect.width - r.x
      overlapRight  == r.x + r.width - playerRect.x
      overlapTop    == playerRect.y + playerRect.height - r.y
      overlapBottom == r.y + r.height - playerRect.y
      minOverlapX   == Min(overlapLeft, overlapRight)
      minOverlapY   == Min(overlapTop, overlapBottom)
  IN  IF minOverlapX <= minOverlapY
      THEN IF overlapLeft < overlapRight
           THEN [collides |-> TRUE, direction |-> "right", overlap |-> overlapLeft]
           ELSE [collides |-> TRUE, direction |-> "left", overlap |-> overlapRight]
      ELSE IF overlapTop < overlapBottom
           THEN [collides |-> TRUE, direction |-> "top", overlap |-> overlapTop]
           ELSE [collides |-> TRUE, direction |-> "bottom", overlap |-> overlapBottom]

MinOverlapDirection(playerRect, r) ==
  LET overlapLeft   == playerRect.x + playerRect.width - r.x
      overlapRight  == r.x + r.width - playerRect.x
      overlapTop    == playerRect.y + playerRect.height - r.y
      overlapBottom == r.y + r.height - playerRect.y
      minOverlapX   == Min(overlapLeft, overlapRight)
      minOverlapY   == Min(overlapTop, overlapBottom)
  IN  IF minOverlapX < minOverlapY
      THEN IF overlapLeft < overlapRight
           THEN [collides |-> TRUE, direction |-> "right", overlap |-> overlapLeft]
           ELSE [collides |-> TRUE, direction |-> "left", overlap |-> overlapRight]
      ELSE IF overlapTop < overlapBottom
           THEN [collides |-> TRUE, direction |-> "top", overlap |-> overlapTop]
           ELSE [collides |-> TRUE, direction |-> "bottom", overlap |-> overlapBottom]

\* the one-way branch, catching only a player that is moving down
OneWayCollision_StrictlyFalling(player, platform, prevY) ==
  LET wasAbove == prevY + PLAYER_HEIGHT <= platform.y + 5 * SCALE
  IN  IF wasAbove /\ player.vy > 0
      THEN [collides |-> TRUE, direction |-> "top",
            overlap |-> player.y + PLAYER_HEIGHT - platform.y]
      ELSE NoCollision

\* the one-way branch without the wasAbove test
OneWayCollision_AnyApproach(player, platform, prevY) ==
  IF player.vy >= 0
  THEN [collides |-> TRUE, direction |-> "top",
        overlap |-> player.y + PLAYER_HEIGHT - platform.y]
  ELSE NoCollision

\* the one-way branch of checkPlatformCollision
OneWayCollision(player, platform, prevY) ==
  LET wasAbove == prevY + PLAYER_HEIGHT <= platform.y + 5 * SCALE
  IN  IF wasAbove /\ player.vy >= 0
      THEN [collides |-> TRUE, direction |-> "top",
            overlap |-> player.y + PLAYER_HEIGHT - platform.y]
      ELSE NoCollision

checkPlatformCollision(player, platform, prevY) ==
  IF ~rectIntersect(getPlayerRect(player), platform)
  THEN NoCollision
  ELSE IF platform.type = "one-way"
       THEN OneWayCollision(player, platform, prevY)
       ELSE MinOverlapDirection(getPlayerRect(player), platform)

checkPushableCollision(player, pushable, prevY) ==
  IF ~rectIntersect(getPlayerRect(player), pushable)
  THEN NoCollision
  ELSE LET wasAbove == prevY + PLAYER_HEIGHT <= pushable.y + 5 * SCALE
       IN  IF wasAbove /\ player.vy >= 0
           THEN [collides |-> TRUE, direction |-> "top",
                 overlap |-> player.y + PLAYER_HEIGHT - pushable.y]
           ELSE MinOverlapDirection(getPlayerRect(player), pushable)

\* the hazard's whole rectangle as its hitbox
shrunkHazardRect_NoInset(hazard) ==
  [x |-> hazard.x, y |-> hazard.y,
   width |-> hazard.width, height |-> hazard.height]

\* the inset rectangle of checkHazardCollision (shrinkFactor 0.2)
shrunkHazardRect(hazard) ==
  [x |-> hazard.x + Mul(hazard.width, 20),
   y |-> hazard.y + Mul(hazard.height, 20),
   width |-> Mul(hazard.width, 60),
   height |-> Mul(hazard.height, 60)]

checkHazardCollision(player, hazard) ==
  /\ hazard.isActive
  /\ rectIntersect(getPlayerRect(player), shrunkHazardRect(hazard))

-----------------------------------------------------------------------------
(* physics.ts updatePlayerPhysics *)

\* Math.pow(friction, dt) for GROUND_FRICTION 0.8 and AIR_FRICTION 0.95 at the
\* normalised frame times the model steps with, rounded to 1/SCALE
PowFriction(isGrounded, dt) ==
  IF isGrounded
  THEN CASE dt = 0 -> 100 [] dt = 50 -> 89 [] dt = 100 -> 80
         [] dt = 200 -> 64 [] dt = 299 -> 51 [] OTHER -> 80
  ELSE CASE dt = 0 -> 100 [] dt = 50 -> 97 [] dt = 100 -> 95
         [] dt = 200 -> 90 [] dt = 299 -> 86 [] OTHER -> 95

\* lines 42-88 with the jump impulse applied after gravity instead of before
Integrate_JumpAfterGravity(player, input, dt) ==
  LET targetVelX == IF input.right THEN playerSpeed
                    ELSE IF input.left THEN -playerSpeed ELSE 0
      facing == IF input.right THEN TRUE
                ELSE IF input.left THEN FALSE ELSE player.facingRight
      acceleration == IF player.isGrounded THEN 30 ELSE 15
      vx1 == player.vx + Mul(Mul(targetVelX - player.vx, acceleration), dt)
      vx2 == IF Abs(targetVelX) < 10
             THEN Mul(vx1, PowFriction(player.isGrounded, dt)) ELSE vx1
      jumps == input.jump /\ player.isGrounded /\ ~player.isJumping
      vy2 == IF ~input.jump /\ player.vy < -Mul(playerJumpForce, 50)
             THEN -Mul(playerJumpForce, 50) ELSE player.vy
      vy3 == IF jumps THEN -playerJumpForce
             ELSE clamp(vy2 + Mul(gravity, dt), -maxFallSpeed, maxFallSpeed)
  IN  [player EXCEPT
         !.facingRight = facing,
         !.vx = vx2,
         !.vy = vy3,
         !.isJumping = IF jumps THEN TRUE ELSE player.isJumping,
         !.x = player.x + Mul(vx2, dt),
         !.y = player.y + Mul(vy3, dt),
         !.isGrounded = FALSE]

\* lines 42-88 without the variable-height clamp of lines 74-81
Integrate_NoJumpCut(player, input, dt) ==
  LET targetVelX == IF input.right THEN playerSpeed
                    ELSE IF input.left THEN -playerSpeed ELSE 0
      facing == IF input.right THEN TRUE
                ELSE IF input.left THEN FALSE ELSE player.facingRight
      acceleration == IF player.isGrounded THEN 30 ELSE 15
      vx1 == player.vx + Mul(Mul(targetVelX - player.vx, acceleration), dt)
      vx2 == IF Abs(targetVelX) < 10
             THEN Mul(vx1, PowFriction(player.isGrounded, dt)) ELSE vx1
      jumps == input.jump /\ player.isGrounded /\ ~player.isJumping
      vy1 == IF jumps THEN -playerJumpForce ELSE player.vy
      vy3 == clamp(vy1 + Mul(gravity, dt), -maxFallSpeed, maxFallSpeed)
  IN  [player EXCEPT
         !.facingRight = facing,
         !.vx = vx2,
         !.vy = vy3,
         !.isJumping = IF jumps THEN TRUE ELSE player.isJumping,
         !.x = player.x + Mul(vx2, dt),
         !.y = player.y + Mul(vy3, dt),
         !.isGrounded = FALSE]

\* lines 42-88 without the clamp of the vertical velocity (line 84)
Integrate_NoClamp(player, input, dt) ==
  LET targetVelX == IF input.right THEN playerSpeed
                    ELSE IF input.left THEN -playerSpeed ELSE 0
      facing == IF input.right THEN TRUE
                ELSE IF input.left THEN FALSE ELSE player.facingRight
      acceleration == IF player.isGrounded THEN 30 ELSE 15
      vx1 == player.vx + Mul(Mul(targetVelX - player.vx, acceleration), dt)
      vx2 == IF Abs(targetVelX) < 10
             THEN Mul(vx1, PowFriction(player.isGrounded, dt)) ELSE vx1
      jumps == input.jump /\ player.isGrounded /\ ~player.isJumping
      vy1 == IF jumps THEN -playerJumpForce ELSE player.vy
      vy2 == IF ~input.jump /\ vy1 < -Mul(playerJumpForce, 50)
             THEN -Mul(playerJumpForce, 50) ELSE vy1
      vy3 == vy2 + Mul(gravity, dt)
  IN  [player EXCEPT
         !.facingRight = facing,
         !.vx = vx2,
         !.vy = vy3,
         !.isJumping = IF jumps THEN TRUE ELSE player.isJumping,
         !.x = player.x + Mul(vx2, dt),
         !.y = player.y + Mul(vy3, dt),
         !.isGrounded = FALSE]

\* lines 42-88: input, friction, jump, gravity, integration, grounded reset
Integrate(player, input, dt) ==
  LET targetVelX == IF input.right THEN playerSpeed
                    ELSE IF input.left THEN -playerSpeed ELSE 0
      facing == IF input.right THEN TRUE
                ELSE IF input.left THEN FALSE ELSE player.facingRight
      acceleration == IF player.isGrounded THEN 30 ELSE 15
      vx1 == player.vx + Mul(Mul(targetVelX - player.vx, acceleration), dt)
      vx2 == IF Abs(targetVelX) < 10
             THEN Mul(vx1, PowFriction(player.isGrounded, dt)) ELSE vx1
      jumps == input.jump /\ player.isGrounded /\ ~player.isJumping
      vy1 == IF jumps THEN -playerJumpForce ELSE player.vy
      vy2 == IF ~input.jump /\ vy1 < -Mul(playerJumpForce, 50)
             THEN -Mul(playerJumpForce, 50) ELSE vy1
      vy3 == clamp(vy2 + Mul(gravity, dt), -maxFallSpeed, maxFallSpeed)
  IN  [player EXCEPT
         !.facingRight = facing,
         !.vx = vx2,
         !.vy = vy3,
         !.isJumping = IF jumps THEN TRUE ELSE player.isJumping,
         !.x = player.x + Mul(vx2, dt),
         !.y = player.y + Mul(vy3, dt),
         !.isGrounded = FALSE]

\* lines 143-172 with the side cases keeping the horizontal velocity
resolveCollision_KeepsVx(player, collision, platform) ==
  CASE collision.direction = "top" ->
         [player EXCEPT !.y = platform.y - PLAYER_HEIGHT, !.vy = 0,
                        !.isGrounded = TRUE, !.isJumping = FALSE]
    [] collision.direction = "bottom" ->
         [player EXCEPT !.y = platform.y + platform.height, !.vy = 0]
    [] collision.direction = "left" ->
         [player EXCEPT !.x = platform.x + platform.width]
    [] collision.direction = "right" ->
         [player EXCEPT !.x = platform.x - PLAYER_WIDTH]
    [] OTHER -> player

resolveCollision(player, collision, platform) ==
  CASE collision.direction = "top" ->
         [player EXCEPT !.y = platform.y - PLAYER_HEIGHT, !.vy = 0,
                        !.isGrounded = TRUE, !.isJumping = FALSE]
    [] collision.direction = "bottom" ->
         [player EXCEPT !.y = platform.y + platform.height, !.vy = 0]
    [] collision.direction = "left" ->
         [player EXCEPT !.x = platform.x + platform.width, !.vx = 0]
    [] collision.direction = "right" ->
         [player EXCEPT !.x = platform.x - PLAYER_WIDTH, !.vx = 0]
    [] OTHER -> player

\* one iteration of the platform loop (lines 91-96)
ResolvePlatform(player, platform, prevY) ==
  LET collision == checkPlatformCollision(player, platform, prevY)
  IN  IF collision.collides THEN resolveCollision(player, collision, platform)
      ELSE player

\* the platform loop over platforms[1..n], in array order
RECURSIVE ResolvePlatforms(_, _, _, _)
ResolvePlatforms(player, platforms, n, prevY) ==
  IF n = 0 THEN player
  ELSE Let(ResolvePlatforms(player, platforms, n - 1, prevY),
           LAMBDA newPlayer : ResolvePlatform(newPlayer, platforms[n], prevY))

\* one iteration of the pushable loop (lines 99-130)
ResolvePushable(player, pushable, prevY, input) ==
  LET collision == checkPushableCollision(player, pushable, prevY)
  IN  IF ~collision.collides THEN player
      ELSE CASE collision.direction = "top" ->
                  [player EXCEPT !.y = pushable.y - PLAYER_HEIGHT, !.vy = 0,
                                 !.isGrounded = TRUE, !.isJumping = FALSE]
             [] collision.direction = "bottom" ->
                  [player EXCEPT !.y = pushable.y + pushable.height, !.vy = 0]
             [] collision.direction = "right" ->
                  [player EXCEPT !.x = pushable.x - PLAYER_WIDTH, !.vx = 0,
                                 !.isGrabbing = IF input.action THEN TRUE
                                                ELSE player.isGrabbing]
             [] collision.direction = "left" ->
                  [player EXCEPT !.x = pushable.x + pushable.width, !.vx = 0,
                                 !.isGrabbing = IF input.action THEN TRUE
                                                ELSE player.isGrabbing]
             [] OTHER -> player

RECURSIVE ResolvePushables(_, _, _, _, _)
ResolvePushables(player, pushables, n, prevY, input) ==
  IF n = 0 THEN player
  ELSE Let(ResolvePushables(player, pushables, n - 1, prevY, input),
           LAMBDA newPlayer :
             ResolvePushable(newPlayer, pushables[n], prevY, input))

\* lines 174-187 with the walking threshold used for running too
getAnimationState_AlwaysRunning(player) ==
  IF player.isDead THEN "dying"
  ELSE IF player.isGrabbing THEN "pushing"
  ELSE IF ~player.isGrounded
       THEN (IF player.vy < 0 THEN "jumping" ELSE "falling")
  ELSE IF Abs(player.vx) > 50
       THEN "running"
  ELSE "idle"

getAnimationState(player) ==
  IF player.isDead THEN "dying"
  ELSE IF player.isGrabbing THEN "pushing"
  ELSE IF ~player.isGrounded
       THEN (IF player.vy < 0 THEN "jumping" ELSE "falling")
  ELSE IF Abs(player.vx) > 50
       THEN (IF Abs(player.vx) > Mul(playerSpeed, 80) THEN "running" ELSE "walking")
  ELSE "idle"

\* lines 132-140 with the flag of line 137 set instead of cleared
FinishPlayer_SetsJumping(player) ==
  [player EXCEPT !.animationState = getAnimationState(player),
                 !.isJumping = IF player.isGrounded THEN TRUE ELSE player.isJumping]

\* lines 132-140
FinishPlayer(player) ==
  [player EXCEPT !.animationState = getAnimationState(player),
                 !.isJumping = IF player.isGrounded THEN FALSE ELSE player.isJumping]

updatePlayerPhysics(player, input, levelData, dt) ==
  IF player.isDead \/ player.isOnRope
  THEN player
  ELSE Let(Integrate(player, input, dt), LAMBDA integrated :
       Let(ResolvePlatforms(integrated, levelData.platforms,
                            Len(levelData.platforms), player.y),
           LAMBDA afterPlatforms :
       Let(ResolvePushables(afterPlatforms, levelData.pushableObjects,
                            Len(levelData.pushableObjects), player.y, input),
           LAMBDA afterPushables : FinishPlayer(afterPushables))))

-----------------------------------------------------------------------------
(* physics.ts updatePushablePhysics *)

\* the platform loop of one pushable (lines 235-258), platforms[1..n] in order
RECURSIVE PushableVsPlatforms(_, _, _)
PushableVsPlatforms(pushable, platforms, n) ==
  IF n = 0 THEN pushable
  ELSE LET q == PushableVsPlatforms(pushable, platforms, n - 1)
           platform == platforms[n]
           overlapTop   == q.y + q.height - platform.y
           overlapLeft  == q.x + q.width - platform.x
           overlapRight == platform.x + platform.width - q.x
       IN  IF ~rectIntersect(q, platform) THEN q
           ELSE IF overlapTop < overlapLeft /\ overlapTop < overlapRight
                THEN [q EXCEPT !.y = platform.y - q.height, !.vy = 0]
           ELSE IF overlapLeft < overlapRight
                THEN [q EXCEPT !.x = platform.x - q.width, !.vx = 0]
           ELSE [q EXCEPT !.x = platform.x + platform.width, !.vx = 0]

\* lines 198-260 without the clamp of the vertical velocity
updatePushable_NoClamp(pushable, player, platforms, input, dt) ==
  LET playerRight   == player.x + PLAYER_WIDTH
      playerBottom  == player.y + PLAYER_HEIGHT
      pushableRight == pushable.x + pushable.width
      nearLeft  == Abs(playerRight - pushable.x) < 10 * SCALE
      nearRight == Abs(player.x - pushableRight) < 10 * SCALE
      isNearX == nearLeft \/ nearRight
      isOverlappingY ==
        /\ playerBottom > pushable.y + 10 * SCALE
        /\ player.y < pushable.y + pushable.height - 10 * SCALE
      pushed == isNearX /\ isOverlappingY /\ input.action /\ player.isGrounded
      vx1 == IF pushed
             THEN (IF input.right /\ nearLeft THEN PUSH_SPEED
                   ELSE IF input.left /\ nearRight THEN -PUSH_SPEED
                   ELSE pushable.vx)
             ELSE Mul(pushable.vx, 80)
      vy1 == pushable.vy + Mul(gravity, dt)
      moved == [pushable EXCEPT !.isBeingPushed = pushed,
                                !.vx = vx1, !.vy = vy1,
                                !.x = pushable.x + Mul(vx1, dt),
                                !.y = pushable.y + Mul(vy1, dt)]
  IN  PushableVsPlatforms(moved, platforms, Len(platforms))

\* lines 198-260 with the push direction taken from the keys alone, so that
\* the player can pull
updatePushable_Pulls(pushable, player, platforms, input, dt) ==
  LET playerRight   == player.x + PLAYER_WIDTH
      playerBottom  == player.y + PLAYER_HEIGHT
      pushableRight == pushable.x + pushable.width
      nearLeft  == Abs(playerRight - pushable.x) < 10 * SCALE
      nearRight == Abs(player.x - pushableRight) < 10 * SCALE
      isNearX == nearLeft \/ nearRight
      isOverlappingY ==
        /\ playerBottom > pushable.y + 10 * SCALE
        /\ player.y < pushable.y + pushable.height - 10 * SCALE
      pushed == isNearX /\ isOverlappingY /\ input.action /\ player.isGrounded
      vx1 == IF pushed
             THEN (IF input.right THEN PUSH_SPEED
                   ELSE IF input.left THEN -PUSH_SPEED
                   ELSE pushable.vx)
             ELSE Mul(pushable.vx, 80)
      vy1 == clamp(pushable.vy + Mul(gravity, dt), -20 * SCALE, 20 * SCALE)
      moved == [pushable EXCEPT !.isBeingPushed = pushed,
                                !.vx = vx1, !.vy = vy1,
                                !.x = pushable.x + Mul(vx1, dt),
                                !.y = pushable.y + Mul(vy1, dt)]
  IN  PushableVsPlatforms(moved, platforms, Len(platforms))

updatePushable(pushable, player, platforms, input, dt) ==
  LET playerRight   == player.x + PLAYER_WIDTH
      playerBottom  == player.y + PLAYER_HEIGHT
      pushableRight == pushable.x + pushable.width
      nearLeft  == Abs(playerRight - pushable.x) < 10 * SCALE
      nearRight == Abs(player.x - pushableRight) < 10 * SCALE
      isNearX == nearLeft \/ nearRight
      isOverlappingY ==
        /\ playerBottom > pushable.y + 10 * SCALE
        /\ player.y < pushable.y + pushable.height - 10 * SCALE
      pushed == isNearX /\ isOverlappingY /\ input.action /\ player.isGrounded
      vx1 == IF pushed
             THEN (IF input.right /\ nearLeft THEN PUSH_SPEED
                   ELSE IF input.left /\ nearRight THEN -PUSH_SPEED
                   ELSE pushable.vx)
             ELSE Mul(pushable.vx, 80)
      vy1 == clamp(pushable.vy + Mul(gravity, dt), -20 * SCALE, 20 * SCALE)
      moved == [pushable EXCEPT !.isBeingPushed = pushed,
                                !.vx = vx1, !.vy = vy1,
                                !.x = pushable.x + Mul(vx1, dt),
                                !.y = pushable.y + Mul(vy1, dt)]
  IN  PushableVsPlatforms(moved, platforms, Len(platforms))

updatePushablePhysics(pushables, player, platforms, input, dt) ==
  [i \in 1..Len(pushables) |->
     updatePushable(pushables[i], player, platforms, input, dt)]

-----------------------------------------------------------------------------
(* Rope solver, soft-spring model (updateRopePhysics, checkRopeGrab) *)

NULL == "null"

\* a direction is a unit vector with components counted in 1/UNIT
UNIT == 100 * 100

\* constants of the soft-spring solver; constants.ts as shipped under src/
\* predates them
ROPE_SWING_ACCEL == 50

ROPE_AIR_RESISTANCE == 99

ROPE_MAX_SWING_SPEED == 1200

\* floor of the square root, by bisection on [lo, hi]
RECURSIVE SqrtBetween(_, _, _)
SqrtBetween(n, lo, hi) ==
  IF lo >= hi THEN lo
  ELSE LET mid == (lo + hi + 1) \div 2
       IN  IF mid * mid <= n THEN SqrtBetween(n, mid, hi)
           ELSE SqrtBetween(n, lo, mid - 1)

\* Math.sqrt, truncated
Sqrt(n) == SqrtBetween(n, 0, 46340)

\* Math.sqrt(dx*dx + dy*dy), truncated
Hypot(dx, dy) == Sqrt(dx * dx + dy * dy)

\* a rope's angle is kept as (Math.sin(angle), Math.cos(angle)) in 1/UNIT:
\* Math.atan2(x, y) of the anchor-to-player vector, as line 1275 stores it
AngleOf(vx, vy) ==
  LET d == Hypot(vx, vy)
  IN  IF d = 0 THEN [sin |-> 0, cos |-> UNIT]
      ELSE [sin |-> TDiv(vx * UNIT, d), cos |-> TDiv(vy * UNIT, d)]

Rope(id, anchorX, anchorY, length, angle) ==
  [id |-> id, anchorX |-> anchorX, anchorY |-> anchorY, length |-> length,
   angle |-> angle, angularVelocity |-> 0]

playerCenter(player) ==
  [x |-> player.x + PLAYER_WIDTH \div 2, y |-> player.y + PLAYER_HEIGHT \div 2]

\* Steps 1-3: gravity, tangent force, air resistance, speed cap
RopeVelocity(rope, player, input, dt) ==
  LET c == playerCenter(player)
      ropeVecX == c.x - rope.anchorX
      ropeVecY == c.y - rope.anchorY
      ropeLen == Hypot(ropeVecX, ropeVecY)
      tangentX == IF ropeLen > 0 THEN TDiv(ropeVecY * UNIT, ropeLen) ELSE 0
      tangentY == IF ropeLen > 0 THEN TDiv((-ropeVecX) * UNIT, ropeLen) ELSE 0
      push == Mul(ROPE_SWING_ACCEL, dt)
      vy0 == player.vy + Mul(Mul(gravity, dt), 80)
      vxL == IF input.left THEN player.vx - TDiv(tangentX * push, UNIT) ELSE player.vx
      vyL == IF input.left THEN vy0 - TDiv(tangentY * push, UNIT) ELSE vy0
      vxR == IF input.right THEN vxL + TDiv(tangentX * push, UNIT) ELSE vxL
      vyR == IF input.right THEN vyL + TDiv(tangentY * push, UNIT) ELSE vyL
  IN  [vx |-> clamp(Mul(vxR, ROPE_AIR_RESISTANCE),
                    -ROPE_MAX_SWING_SPEED, ROPE_MAX_SWING_SPEED),
       vy |-> Mul(vyR, ROPE_AIR_RESISTANCE),
       facingRight |-> IF ropeLen > 0 /\ input.right THEN TRUE
                       ELSE IF ropeLen > 0 /\ input.left THEN FALSE
                       ELSE player.facingRight]

\* step 5 without the hard limit
HardLimit_NoClamp(rope, radialX, radialY, newDist, cx, cy) ==
  [x |-> cx, y |-> cy]

\* the hard limit of step 5 (lines 1256-1261): the centre at maxStretch
HardLimit(rope, radialX, radialY, newDist, cx, cy) ==
  LET maxStretch == Mul(rope.length, 105)
  IN  IF newDist > maxStretch
      THEN [x |-> rope.anchorX + TDiv(radialX * maxStretch, UNIT),
            y |-> rope.anchorY + TDiv(radialY * maxStretch, UNIT)]
      ELSE [x |-> cx, y |-> cy]

\* Steps 4-5: integrate the centre, then the soft constraint;
\* the result is the centre and the velocity
RopeConstraint(rope, player, vel, dt) ==
  LET c == playerCenter(player)
      cx1 == c.x + Mul(vel.vx, dt)
      cy1 == c.y + Mul(vel.vy, dt)
      newRopeVecX == cx1 - rope.anchorX
      newRopeVecY == cy1 - rope.anchorY
      newDist == Hypot(newRopeVecX, newRopeVecY)
      radialX == TDiv(newRopeVecX * UNIT, newDist)
      radialY == TDiv(newRopeVecY * UNIT, newDist)
  IN  IF newDist = 0 THEN [x |-> cx1, y |-> cy1, vx |-> vel.vx, vy |-> vel.vy]
      ELSE IF newDist > rope.length
      THEN LET pullForce == Mul(newDist - rope.length, 30)
               radialVel == TDiv(vel.vx * radialX + vel.vy * radialY, UNIT)
               pos == HardLimit(rope, radialX, radialY, newDist,
                                cx1 - TDiv(radialX * pullForce, UNIT),
                                cy1 - TDiv(radialY * pullForce, UNIT))
           IN  [x |-> pos.x, y |-> pos.y,
                vx |-> IF radialVel > 0
                       THEN vel.vx - Mul(TDiv(radialVel * radialX, UNIT), 80)
                       ELSE vel.vx,
                vy |-> IF radialVel > 0
                       THEN vel.vy - Mul(TDiv(radialVel * radialY, UNIT), 80)
                       ELSE vel.vy]
      ELSE IF newDist < Mul(rope.length, 95)
      THEN LET gentlePull == Mul(rope.length - newDist, 2)
           IN  [x |-> cx1, y |-> cy1,
                vx |-> vel.vx + TDiv(radialX * gentlePull, UNIT),
                vy |-> vel.vy + TDiv(radialY * gentlePull, UNIT)]
      ELSE [x |-> cx1, y |-> cy1, vx |-> vel.vx, vy |-> vel.vy]

updateRopePhysics(rope, player, input, dt) ==
  IF ~player.isOnRope \/ player.attachedRopeId # rope.id
  THEN [rope |-> rope, player |-> player]
  ELSE LET vel == RopeVelocity(rope, player, input, dt)
           r == RopeConstraint(rope, player, vel, dt)
       IN  [rope |-> [rope EXCEPT
                        !.angle = AngleOf(r.x - rope.anchorX, r.y - rope.anchorY),
                        !.angularVelocity = Mul(r.vx, 1)],
            player |-> [player EXCEPT
                          !.vx = r.vx, !.vy = r.vy,
                          !.facingRight = vel.facingRight,
                          !.x = r.x - PLAYER_WIDTH \div 2,
                          !.y = r.y - PLAYER_HEIGHT \div 2,
                          !.animationState = "swinging",
                          !.isGrounded = FALSE,
                          !.isJumping = FALSE]]

\* release that leaves the rope's id on the player
RopeRelease_KeepsId(player, input) ==
  LET cooldown == Max(0, player.ropeGrabCooldown - 1)
  IN  IF input.jump /\ cooldown = 0
      THEN [player EXCEPT !.isOnRope = FALSE,
                          !.ropeGrabCooldown = 0,
                          !.vy = Min(player.vy - 5 * SCALE, -3 * SCALE),
                          !.isJumping = TRUE,
                          !.animationState = "jumping"]
      ELSE [player EXCEPT !.ropeGrabCooldown = cooldown]

\* release on any jump, cooldown or not
RopeRelease_NoCooldown(player, input) ==
  LET cooldown == Max(0, player.ropeGrabCooldown - 1)
  IN  IF input.jump
      THEN [player EXCEPT !.isOnRope = FALSE,
                          !.attachedRopeId = NULL,
                          !.ropeGrabCooldown = 0,
                          !.vy = Min(player.vy - 5 * SCALE, -3 * SCALE),
                          !.isJumping = TRUE,
                          !.animationState = "jumping"]
      ELSE [player EXCEPT !.ropeGrabCooldown = cooldown]

\* the cooldown counted down without the floor of Math.max(0, ...)
RopeRelease_NoFloor(player, input) ==
  LET cooldown == player.ropeGrabCooldown - 1
  IN  IF input.jump /\ cooldown = 0
      THEN [player EXCEPT !.isOnRope = FALSE,
                          !.attachedRopeId = NULL,
                          !.ropeGrabCooldown = 0,
                          !.vy = Min(player.vy - 5 * SCALE, -3 * SCALE),
                          !.isJumping = TRUE,
                          !.animationState = "jumping"]
      ELSE [player EXCEPT !.ropeGrabCooldown = cooldown]

\* lines 1299-1322: the player is on a rope
RopeRelease(player, input) ==
  LET cooldown == Max(0, player.ropeGrabCooldown - 1)
  IN  IF input.jump /\ cooldown = 0
      THEN [player EXCEPT !.isOnRope = FALSE,
                          !.attachedRopeId = NULL,
                          !.ropeGrabCooldown = 0,
                          !.vy = Min(player.vy - 5 * SCALE, -3 * SCALE),
                          !.isJumping = TRUE,
                          !.animationState = "jumping"]
      ELSE [player EXCEPT !.ropeGrabCooldown = cooldown]

\* lines 1336-1356: distance from the player's centre to the closest point of
\* the rope, restricted to the parametric range [0.3, 1]
RopeDistance(player, rope) ==
  LET c == playerCenter(player)
      ropeVecX == TDiv(rope.angle.sin * rope.length, UNIT)
      ropeVecY == TDiv(rope.angle.cos * rope.length, UNIT)
      playerToAnchorX == c.x - rope.anchorX
      playerToAnchorY == c.y - rope.anchorY
      dot == TDiv(playerToAnchorX * ropeVecX + playerToAnchorY * ropeVecY,
                  TDiv(rope.length * rope.length, 1000))
      t == clamp(dot, 300, 1000)
      closestX == rope.anchorX + TDiv(ropeVecX * t, 1000)
      closestY == rope.anchorY + TDiv(ropeVecY * t, 1000)
  IN  Hypot(c.x - closestX, c.y - closestY)

\* attach with a cooldown one frame short
RopeAttach_ShortCooldown(player, rope) ==
  [player EXCEPT !.isOnRope = TRUE,
                 !.attachedRopeId = rope.id,
                 !.isGrounded = FALSE,
                 !.isJumping = FALSE,
                 !.animationState = "swinging",
                 !.ropeGrabCooldown = 14]

\* lines 1358-1373
RopeAttach(player, rope) ==
  [player EXCEPT !.isOnRope = TRUE,
                 !.attachedRopeId = rope.id,
                 !.isGrounded = FALSE,
                 !.isJumping = FALSE,
                 !.animationState = "swinging",
                 !.ropeGrabCooldown = 15]

\* the for loop over ropes[i..], first rope in reach wins
RECURSIVE GrabFrom(_, _, _, _)
GrabFrom(player, ropes, i, grabDistance) ==
  IF i > Len(ropes) THEN player
  ELSE IF RopeDistance(player, ropes[i]) < grabDistance
       THEN RopeAttach(player, ropes[i])
       ELSE GrabFrom(player, ropes, i + 1, grabDistance)

\* lines 1293-1377 with the attach handing the player's horizontal momentum
\* to the rope (angularVelocity += velocity.x * 0.01)
checkRopeGrab_TransfersMomentum(player, ropes, input, grabDistance) ==
  IF player.isOnRope
  THEN [player |-> RopeRelease(player, input), ropes |-> ropes]
  ELSE LET isInAir == ~player.isGrounded \/ player.vy < 0
           after == GrabFrom(player, ropes, 1, grabDistance)
       IN  IF ~input.action \/ ~isInAir
           THEN [player |-> player, ropes |-> ropes]
           ELSE [player |-> after,
                 ropes |-> [i \in 1..Len(ropes) |->
                              IF after.isOnRope /\ ropes[i].id = after.attachedRopeId
                              THEN [ropes[i] EXCEPT !.angularVelocity =
                                                      @ + Mul(player.vx, 1)]
                              ELSE ropes[i]]]

\* lines 1293-1377 without the airborne test of line 1327
checkRopeGrab_GrabsGrounded(player, ropes, input, grabDistance) ==
  IF player.isOnRope
  THEN [player |-> RopeRelease(player, input), ropes |-> ropes]
  ELSE IF ~input.action
       THEN [player |-> player, ropes |-> ropes]
       ELSE [player |-> GrabFrom(player, ropes, 1, grabDistance),
             ropes |-> ropes]

checkRopeGrab(player, ropes, input, grabDistance) ==
  IF player.isOnRope
  THEN [player |-> RopeRelease(player, input), ropes |-> ropes]
  ELSE LET isInAir == ~player.isGrounded \/ player.vy < 0
       IN  IF ~input.action \/ ~isInAir
           THEN [player |-> player, ropes |-> ropes]
           ELSE [player |-> GrabFrom(player, ropes, 1, grabDistance),
                 ropes |-> ropes]

\* the idle-sway routine Game.tsx imports: an unattached rope relaxes toward
\* its resting angle (straight down)
updateIdleRopePhysics(rope, dt) ==
  LET s == rope.angle.sin - TDiv(rope.angle.sin, 8)
      c == Sqrt(UNIT * UNIT - s * s)
  IN  [rope EXCEPT !.angle = [sin |-> s,
                              cos |-> IF rope.angle.cos < 0 THEN -c ELSE c],
                   !.angularVelocity = 0]

-----------------------------------------------------------------------------
(* components/game/Game.tsx *)

CANVAS_WIDTH == 128000

CANVAS_HEIGHT == 72000

NoPoint == [set |-> FALSE, x |-> 0, y |-> 0]

Point(x, y) == [set |-> TRUE, x |-> x, y |-> y]

createInitialPlayer(startPosition) ==
  [x |-> startPosition.x, y |-> startPosition.y, vx |-> 0, vy |-> 0,
   isGrounded |-> FALSE, isJumping |-> FALSE, isDead |-> FALSE,
   isGrabbing |-> FALSE, isOnRope |-> FALSE, attachedRopeId |-> NULL,
   ropeGrabCooldown |-> 0, facingRight |-> TRUE, animationState |-> "idle"]

\* levelIndex counts from 0 as in the program; the sequence lvls from 1
createInitialGameState(lvls, levelIndex) ==
  LET levelData == lvls[levelIndex + 1]
  IN  [isPlaying |-> FALSE, isPaused |-> FALSE,
       currentLevel |-> levelIndex,
       player |-> createInitialPlayer(levelData.playerStart),
       camera |-> [x |-> levelData.playerStart.x, y |-> levelData.playerStart.y,
                   zoom |-> SCALE, shake |-> 0],
       lastCheckpoint |-> NoPoint,
       deathCount |-> 0,
       levelData |-> levelData]

\* lines 204-224: grab or release, the attached rope's physics, idle ropes
RopeStage(player, ropes, input, dt) ==
  LET grabbed == checkRopeGrab(player, ropes, input, ROPE_GRAB_DISTANCE).player
      found == {i \in 1..Len(ropes) : ropes[i].id = grabbed.attachedRopeId}
      swings == grabbed.isOnRope /\ grabbed.attachedRopeId # NULL /\ found # {}
      k == CHOOSE i \in found : \A j \in found : i <= j
      result == updateRopePhysics(ropes[k], grabbed, input, dt)
      current == IF swings THEN result.player ELSE grabbed
  IN  [player |-> current,
       ropes |-> [i \in 1..Len(ropes) |->
                    LET r == IF swings /\ ropes[i].id = ropes[k].id
                             THEN result.rope ELSE ropes[i]
                    IN  IF r.id # current.attachedRopeId
                        THEN updateIdleRopePhysics(r, dt) ELSE r]]

\* lines 229-239
HazardHit(player, hazards) ==
  \E i \in 1..Len(hazards) : checkHazardCollision(player, hazards[i])

\* lines 241-260 latching every overlapped checkpoint, activated or not
RECURSIVE CheckpointStage_Relatches(_, _, _, _)
CheckpointStage_Relatches(checkpoints, n, player, lastCheckpoint) ==
  IF n = 0 THEN [checkpoints |-> checkpoints, lastCheckpoint |-> lastCheckpoint]
  ELSE LET before == CheckpointStage_Relatches(checkpoints, n - 1, player,
                                               lastCheckpoint)
           cp == checkpoints[n]
       IN  IF rectIntersect(getPlayerRect(player), cp)
           THEN [checkpoints |-> [before.checkpoints EXCEPT ![n].isActivated = TRUE],
                 lastCheckpoint |-> Point(cp.x, cp.y + cp.height - PLAYER_HEIGHT)]
           ELSE before

\* lines 241-260: <<checkpoints, lastCheckpoint>> after checkpoints[1..n]
RECURSIVE CheckpointStage(_, _, _, _)
CheckpointStage(checkpoints, n, player, lastCheckpoint) ==
  IF n = 0 THEN [checkpoints |-> checkpoints, lastCheckpoint |-> lastCheckpoint]
  ELSE LET before == CheckpointStage(checkpoints, n - 1, player, lastCheckpoint)
           cp == checkpoints[n]
       IN  IF ~cp.isActivated /\ rectIntersect(getPlayerRect(player), cp)
           THEN [checkpoints |-> [before.checkpoints EXCEPT ![n].isActivated = TRUE],
                 lastCheckpoint |-> Point(cp.x, cp.y + cp.height - PLAYER_HEIGHT)]
           ELSE before

\* the lever's update in the pressure plate's place: targets only go off
SetTargets_AlwaysOff(hazards, targetIds, active) ==
  [i \in 1..Len(hazards) |->
     IF hazards[i].id \in targetIds
     THEN [hazards[i] EXCEPT !.isActive = FALSE] ELSE hazards[i]]

SetTargets(hazards, targetIds, active) ==
  [i \in 1..Len(hazards) |->
     IF hazards[i].id \in targetIds
     THEN [hazards[i] EXCEPT !.isActive = active] ELSE hazards[i]]

\* lines 268-319: <<switches, hazards>> after switches[1..n]
RECURSIVE SwitchStage(_, _, _, _, _, _)
SwitchStage(switches, n, hazards, player, pushables, input) ==
  IF n = 0 THEN [switches |-> switches, hazards |-> hazards]
  ELSE LET before == SwitchStage(switches, n - 1, hazards, player, pushables, input)
           sw == switches[n]
           touching == rectIntersect(getPlayerRect(player), sw)
           isPressed == \/ touching
                        \/ \E i \in 1..Len(pushables) : rectIntersect(pushables[i], sw)
       IN  IF sw.type = "pressurePlate"
           THEN [switches |-> [before.switches EXCEPT ![n].isActivated = isPressed],
                 hazards |-> IF isPressed # sw.isActivated
                             THEN SetTargets(before.hazards, sw.targetIds, ~isPressed)
                             ELSE before.hazards]
           ELSE IF touching /\ input.action /\ ~sw.isActivated
           THEN [switches |-> [before.switches EXCEPT ![n].isActivated = TRUE],
                 hazards |-> SetTargets(before.hazards, sw.targetIds, FALSE)]
           ELSE before

\* lines 334-352
FollowCamera(camera, player, levelData, died) ==
  LET targetCameraX == player.x + PLAYER_WIDTH \div 2
      targetCameraY == player.y + PLAYER_HEIGHT \div 2
      newCameraX == camera.x + Mul(targetCameraX - camera.x, 8)
      newCameraY == camera.y + Mul(targetCameraY - camera.y, 8)
      halfWidth == TDiv((CANVAS_WIDTH \div 2) * SCALE, camera.zoom)
      halfHeight == TDiv((CANVAS_HEIGHT \div 2) * SCALE, camera.zoom)
  IN  [x |-> clamp(newCameraX, halfWidth, levelData.width - halfWidth),
       y |-> clamp(newCameraY, halfHeight, levelData.height - halfHeight),
       zoom |-> camera.zoom,
       shake |-> Mul(IF died THEN SCALE ELSE camera.shake, 90)]

\* lines 229-360 without the death counter's increment
FinishFrame_DeathUncounted(prev, input, platforms, pushables, ropes, moved) ==
  LET died == HazardHit(moved, prev.levelData.hazards)
      newPlayer == IF died
                   THEN [moved EXCEPT !.isDead = TRUE,
                                      !.animationState = "dying"]
                   ELSE moved
      cps == CheckpointStage(prev.levelData.checkpoints,
                             Len(prev.levelData.checkpoints),
                             newPlayer, prev.lastCheckpoint)
      sws == SwitchStage(prev.levelData.switches, Len(prev.levelData.switches),
                         prev.levelData.hazards, newPlayer, pushables, input)
      levelData == [prev.levelData EXCEPT
                      !.platforms = platforms,
                      !.pushableObjects = pushables,
                      !.ropes = ropes,
                      !.checkpoints = cps.checkpoints,
                      !.switches = sws.switches,
                      !.hazards = sws.hazards]
  IN  [prev EXCEPT
         !.player = newPlayer,
         !.lastCheckpoint = cps.lastCheckpoint,
         !.camera = FollowCamera(prev.camera, newPlayer, levelData, died),
         !.levelData = levelData]

\* lines 229-360: hazards, checkpoints, switches, camera and the new state,
\* given the platforms, pushables, ropes and player the frame has computed
FinishFrame(prev, input, platforms, pushables, ropes, moved) ==
  LET died == HazardHit(moved, prev.levelData.hazards)
      newPlayer == IF died
                   THEN [moved EXCEPT !.isDead = TRUE,
                                      !.animationState = "dying"]
                   ELSE moved
      cps == CheckpointStage(prev.levelData.checkpoints,
                             Len(prev.levelData.checkpoints),
                             newPlayer, prev.lastCheckpoint)
      sws == SwitchStage(prev.levelData.switches, Len(prev.levelData.switches),
                         prev.levelData.hazards, newPlayer, pushables, input)
      levelData == [prev.levelData EXCEPT
                      !.platforms = platforms,
                      !.pushableObjects = pushables,
                      !.ropes = ropes,
                      !.checkpoints = cps.checkpoints,
                      !.switches = sws.switches,
                      !.hazards = sws.hazards]
  IN  [prev EXCEPT
         !.player = newPlayer,
         !.deathCount = IF died THEN prev.deathCount + 1 ELSE prev.deathCount,
         !.lastCheckpoint = cps.lastCheckpoint,
         !.camera = FollowCamera(prev.camera, newPlayer, levelData, died),
         !.levelData = levelData]

\* the state updater without the early return for a dead player
gameUpdate_NoDeadCheck(prev, input, dt) ==
  Let(updateMovingPlatforms(prev.levelData.platforms, dt),
      LAMBDA platforms :
  Let(updatePushablePhysics(prev.levelData.pushableObjects,
                            prev.player, platforms, input, dt),
      LAMBDA pushables :
  Let(RopeStage(prev.player, prev.levelData.ropes, input, dt),
      LAMBDA roped :
  Let(updatePlayerPhysics(
        roped.player, input,
        [prev.levelData EXCEPT !.platforms = platforms,
                               !.pushableObjects = pushables],
        dt),
      LAMBDA moved :
        FinishFrame(prev, input, platforms, pushables, roped.ropes, moved)))))

\* the state updater of gameUpdate (lines 181-360)
gameUpdate(prev, input, dt) ==
  IF prev.player.isDead THEN prev
  ELSE Let(updateMovingPlatforms(prev.levelData.platforms, dt),
           LAMBDA platforms :
       Let(updatePushablePhysics(prev.levelData.pushableObjects,
                                 prev.player, platforms, input, dt),
           LAMBDA pushables :
       Let(RopeStage(prev.player, prev.levelData.ropes, input, dt),
           LAMBDA roped :
       Let(updatePlayerPhysics(
             roped.player, input,
             [prev.levelData EXCEPT !.platforms = platforms,
                                    !.pushableObjects = pushables],
             dt),
           LAMBDA moved :
             FinishFrame(prev, input, platforms, pushables, roped.ropes,
                         moved)))))

\* lines 321-332: the frame that led from prev to next schedules a nextLevel
\* timer
ReachesExit(prev, next) ==
  /\ ~prev.player.isDead
  /\ rectIntersect(getPlayerRect(next.player), prev.levelData.exitZone)

-----------------------------------------------------------------------------
(* Events *)

InputState(left, right, jump, action) ==
  [left |-> left, right |-> right, jump |-> jump, action |-> action]

NoInput == InputState(FALSE, FALSE, FALSE, FALSE)

\* bound on the frames whose keys or frame time differ from the event before
MaxKeyChanges == 2

\* what the last event was, with a frame's keys and frame time, and the state
\* it started from; keyChanges counts the frames whose keys or frame time
\* differ from the event before (a frame that follows another kind of event
\* counts; counting stops above MaxKeyChanges), ropeSteps the frames the
\* player has spent on the rope since the frame that attached it (16: more
\* than the cooldown's 15), lastJump whether the event before was a frame
\* with jump held
Hist(act, input, dt, frame) ==
  [act |-> act, input |-> input, dt |-> dt, prev |-> gs, frame |-> frame,
   keyChanges |-> IF /\ act = "frame" /\ (input # hist.input \/ dt # hist.dt)
                     /\ hist.keyChanges <= MaxKeyChanges
                  THEN hist.keyChanges + 1 ELSE hist.keyChanges,
   ropeSteps |-> IF ~gs.player.isOnRope THEN 0
                 ELSE IF act = "frame" /\ ~gs.player.isDead /\ hist.ropeSteps <= 15
                      THEN hist.ropeSteps + 1 ELSE hist.ropeSteps,
   lastJump |-> hist.act = "frame" /\ hist.input.jump]

\* updatePushablePhysics writes through newPushable.velocity, the object the
\* level definition holds too
ShareVelocities(lvls, levelIndex, pushables) ==
  [lvls EXCEPT ![levelIndex + 1].pushableObjects =
     [i \in 1..Len(pushables) |->
        [@[i] EXCEPT !.vx = pushables[i].vx, !.vy = pushables[i].vy]]]

\* bound on the number of pending timers
MaxTimers == 2

\* one animation frame: useGameLoop calls gameUpdate while the game is
\* playing and not paused.  maxFrames < 0: frames are not counted.
Frame(inputs, dts, maxFrames) ==
  /\ gs.isPlaying /\ ~gs.isPaused
  /\ maxFrames >= 0 => hist.frame < maxFrames
  /\ \E input \in inputs, dt \in dts :
     \E next \in {gameUpdate(gs, input, dt)} :
       LET exits == ReachesExit(gs, next)
       IN  /\ exits => Len(timers) < MaxTimers
           /\ gs' = next
           /\ timers' = IF exits THEN Append(timers, gs.currentLevel) ELSE timers
           /\ levels' = IF gs.player.isDead THEN levels
                        ELSE ShareVelocities(levels, gs.currentLevel,
                                             next.levelData.pushableObjects)
           /\ hist' = Hist("frame", input, dt,
                           IF maxFrames >= 0 THEN hist.frame + 1 ELSE hist.frame)
  /\ UNCHANGED <<showStartScreen, inputState, heldKeys>>

\* lines 105-111
startGame ==
  /\ showStartScreen
  /\ showStartScreen' = FALSE
  /\ gs' = [gs EXCEPT !.isPlaying = TRUE]
  /\ hist' = Hist("startGame", NoInput, 0, hist.frame)
  /\ UNCHANGED <<timers, levels, inputState, heldKeys>>

\* lines 145-150: Escape while playing, or the pause menu's resume
togglePause ==
  /\ gs.isPlaying /\ ~showStartScreen
  /\ gs' = [gs EXCEPT !.isPaused = ~gs.isPaused]
  /\ hist' = Hist("togglePause", NoInput, 0, hist.frame)
  /\ UNCHANGED <<showStartScreen, timers, levels, inputState, heldKeys>>

\* lines 113-128 respawning at the level's start whatever was latched
restartLevel_AtPlayerStart ==
  /\ gs.player.isDead \/ (gs.isPaused /\ ~showStartScreen)
  /\ LET levelData == levels[gs.currentLevel + 1]
         respawnPoint == levelData.playerStart
     IN  gs' = [gs EXCEPT
                  !.player = createInitialPlayer(respawnPoint),
                  !.camera = [x |-> respawnPoint.x, y |-> respawnPoint.y,
                              zoom |-> SCALE, shake |-> 0],
                  !.isPaused = FALSE]
  /\ hist' = Hist("restartLevel", NoInput, 0, hist.frame)
  /\ UNCHANGED <<showStartScreen, timers, levels, inputState, heldKeys>>

\* lines 113-128 with the level's data loaded afresh from the levels array
restartLevel_ReloadsLevel ==
  /\ gs.player.isDead \/ (gs.isPaused /\ ~showStartScreen)
  /\ LET levelData == levels[gs.currentLevel + 1]
         respawnPoint == IF gs.lastCheckpoint.set THEN gs.lastCheckpoint
                         ELSE levelData.playerStart
     IN  gs' = [gs EXCEPT
                  !.player = createInitialPlayer(respawnPoint),
                  !.camera = [x |-> respawnPoint.x, y |-> respawnPoint.y,
                              zoom |-> SCALE, shake |-> 0],
                  !.levelData = levelData,
                  !.isPaused = FALSE]
  /\ hist' = Hist("restartLevel", NoInput, 0, hist.frame)
  /\ UNCHANGED <<showStartScreen, timers, levels, inputState, heldKeys>>

\* lines 113-128: KeyR while dead, or the restart button of the pause and
\* death screens
restartLevel ==
  /\ gs.player.isDead \/ (gs.isPaused /\ ~showStartScreen)
  /\ LET levelData == levels[gs.currentLevel + 1]
         respawnPoint == IF gs.lastCheckpoint.set THEN gs.lastCheckpoint
                         ELSE levelData.playerStart
     IN  gs' = [gs EXCEPT
                  !.player = createInitialPlayer(respawnPoint),
                  !.camera = [x |-> respawnPoint.x, y |-> respawnPoint.y,
                              zoom |-> SCALE, shake |-> 0],
                  !.isPaused = FALSE]
  /\ hist' = Hist("restartLevel", NoInput, 0, hist.frame)
  /\ UNCHANGED <<showStartScreen, timers, levels, inputState, heldKeys>>

\* lines 161-169: the debug key
debugKill ==
  /\ gs.isPlaying /\ ~gs.player.isDead
  /\ gs' = [gs EXCEPT !.player.isDead = TRUE,
                      !.player.animationState = "dying",
                      !.deathCount = gs.deathCount + 1,
                      !.camera.shake = SCALE]
  /\ hist' = Hist("debugKill", NoInput, 0, hist.frame)
  /\ UNCHANGED <<showStartScreen, timers, levels, inputState, heldKeys>>

\* lines 130-143 reading the current level when the timer fires
nextLevel_FromCurrentLevel ==
  /\ timers # <<>>
  /\ LET nextLevelIndex == gs.currentLevel + 1
     IN  IF nextLevelIndex < Len(levels)
         THEN /\ gs' = [createInitialGameState(levels, nextLevelIndex)
                          EXCEPT !.isPlaying = TRUE]
              /\ UNCHANGED showStartScreen
         ELSE /\ gs' = createInitialGameState(levels, 0)
              /\ showStartScreen' = TRUE
  /\ timers' = Tail(timers)
  /\ hist' = Hist("nextLevel", NoInput, 0, hist.frame)
  /\ UNCHANGED <<levels, inputState, heldKeys>>

\* lines 130-143: the oldest timer fires; it kept the currentLevel of the
\* render that scheduled it
nextLevel ==
  /\ timers # <<>>
  /\ LET nextLevelIndex == Head(timers) + 1
     IN  IF nextLevelIndex < Len(levels)
         THEN /\ gs' = [createInitialGameState(levels, nextLevelIndex)
                          EXCEPT !.isPlaying = TRUE]
              /\ UNCHANGED showStartScreen
         ELSE /\ gs' = createInitialGameState(levels, 0)
              /\ showStartScreen' = TRUE
  /\ timers' = Tail(timers)
  /\ hist' = Hist("nextLevel", NoInput, 0, hist.frame)
  /\ UNCHANGED <<levels, inputState, heldKeys>>

\* the state after construction (lines 52-53), for a levels array
InitGame(lvls) ==
  /\ levels = lvls
  /\ gs = createInitialGameState(lvls, 0)
  /\ showStartScreen = TRUE
  /\ inputState = NoInput
  /\ heldKeys = {}
  /\ timers = <<>>
  /\ hist = [act |-> "init", input |-> NoInput, dt |-> 0,
             prev |-> createInitialGameState(lvls, 0), frame |-> 0,
             keyChanges |-> 0, ropeSteps |-> 0, lastJump |-> FALSE]

\* the state after startGame, for a levels array
InitPlaying(lvls) ==
  /\ levels = lvls
  /\ gs = [createInitialGameState(lvls, 0) EXCEPT !.isPlaying = TRUE]
  /\ showStartScreen = FALSE
  /\ inputState = NoInput
  /\ heldKeys = {}
  /\ timers = <<>>
  /\ hist = [act |-> "startGame", input |-> NoInput, dt |-> 0,
             prev |-> createInitialGameState(lvls, 0), frame |-> 0,
             keyChanges |-> 0, ropeSteps |-> 0, lastJump |-> FALSE]

Level(width, height, playerStart, platforms, hazards, pushables, switches, ropes, checkpoints, exitZone) ==
  [width |-> width, height |-> height, playerStart |-> playerStart,
   platforms |-> platforms, hazards |-> hazards, pushableObjects |-> pushables,
   switches |-> switches, ropes |-> ropes, checkpoints |-> checkpoints,
   exitZone |-> exitZone]

Rect(x, y, w, h) == [x |-> x, y |-> y, width |-> w, height |-> h]

-----------------------------------------------------------------------------
(* Moving platforms: one moving platform beside a floor the player rests on *)

\* the paths stepped, <<startX, endX, startY, endY, speed>>: a horizontal, a
\* vertical and a diagonal one whose vertical leg is the longer
PlatPaths ==
  {<<1000, 3000, 2000, 2000, 150>>,
   <<20000, 20000, 1000, 2000, 200>>,
   <<12000, 12400, 1000, 1800, 200>>}

\* where on its path a platform starts, in quarters of the path
PlatStartQuarters == {0, 1, 4}

PlatOnPath(path, quarter, dir) ==
  MovingPlatform("moving-1",
                 path[1] + ((path[2] - path[1]) * quarter) \div 4,
                 path[3] + ((path[4] - path[3]) * quarter) \div 4,
                 10000, 2000, path[1], path[2], path[3], path[4], path[5], dir)

PlatLevel(platform) ==
  Level(40000, 30000, [x |-> 1000, y |-> 15000],
        <<Platform("ground-1", 0, 20000, 10000, 10000, "solid"), platform>>,
        <<>>, <<>>, <<>>, <<>>, <<>>, Rect(35000, 0, 1000, 1000))

InitPlat ==
  \E path \in PlatPaths, q \in PlatStartQuarters, dir \in {1, -1} :
    InitPlaying(<<PlatLevel(PlatOnPath(path, q, dir))>>)

\* normalised frame times: 0, half a frame, one and two frames, the cap
PlatDts == {0, 50, 100, 200, FRAME_CAP_DT}

NextPlat == Frame({NoInput}, PlatDts, -1)

SpecPlat == InitPlat /\ [][NextPlat]_vars

NextPlatLive == Frame({NoInput}, PlatDts \ {0}, -1)

\* requestAnimationFrame calls gameUpdate on every animation frame while the
\* game plays and is not paused: a frame that stays possible is taken
SpecPlatLive == InitPlat /\ [][NextPlatLive]_vars /\ WF_vars(NextPlatLive)

movingPlat == gs.levelData.platforms[2]

movingPlatBefore == hist.prev.levelData.platforms[2]

\* the frame just taken ran the updater's body (the player was alive)
FrameRan == hist.act = "frame" /\ ~hist.prev.player.isDead

\* the unclamped coordinate the frame just taken computed for the platform
RawX == movingPlatBefore.x
          + Mul(movingPlatBefore.movingConfig.speed
                  * movingPlatBefore.movingConfig.currentDirection, hist.dt)

RawY == movingPlatBefore.y
          + Mul(movingPlatBefore.movingConfig.speed
                  * movingPlatBefore.movingConfig.currentDirection, hist.dt)

\* C8: a moving platform whose path has start < end on an axis and that
\* starts inside its range stays inside it after every updateMovingPlatforms,
\* for every delta >= 0 and either direction: it never overshoots an endpoint.
C8_PlatformInRange ==
  LET c == movingPlat.movingConfig
  IN  /\ c.startX < c.endX => c.startX <= movingPlat.x /\ movingPlat.x <= c.endX
      /\ c.startY < c.endY => c.startY <= movingPlat.y /\ movingPlat.y <= c.endY

\* a frame whose raw advance passed an endpoint and was brought back to it
C8_Witness ==
  LET c == movingPlat.movingConfig
  IN  /\ FrameRan
      /\ \/ c.startX < c.endX /\ RawX > c.endX /\ movingPlat.x = c.endX
         \/ c.startY < c.endY /\ RawY < c.startY /\ movingPlat.y = c.startY

\* C9: on a single-axis path with start < end, a frame that brings the
\* platform to or past the end clamps it there and leaves direction -1, one
\* that brings it to or past the start clamps it there and leaves direction
\* +1, and every other frame moves it by speed * direction * dt and leaves
\* currentDirection unchanged.
C9_FlipOnlyAtEndpoints ==
  LET c == movingPlat.movingConfig
      d0 == movingPlatBefore.movingConfig.currentDirection
      AxisOk(lo, hi, raw, now) ==
        /\ raw >= hi => now = hi /\ c.currentDirection = -1
        /\ raw < hi /\ raw <= lo => now = lo /\ c.currentDirection = 1
        /\ lo < raw /\ raw < hi => now = raw /\ c.currentDirection = d0
  IN  FrameRan =>
        /\ c.startX < c.endX /\ c.startY = c.endY =>
             AxisOk(c.startX, c.endX, RawX, movingPlat.x)
        /\ c.startY < c.endY /\ c.startX = c.endX =>
             AxisOk(c.startY, c.endY, RawY, movingPlat.y)

\* a frame that reversed the direction of travel at the end of the path
C9_Witness ==
  LET c == movingPlat.movingConfig
  IN  /\ FrameRan
      /\ movingPlatBefore.movingConfig.currentDirection = 1
      /\ c.currentDirection = -1
      /\ movingPlat.x = c.endX \/ movingPlat.y = c.endY
      /\ movingPlatBefore.x < c.endX \/ movingPlatBefore.y < c.endY

\* C10: a moving platform with start < end on an axis and speed > 0, stepped
\* forever with delta > 0 while the player is alive, is at the end coordinate
\* of that axis infinitely often and at its start coordinate infinitely often.
C10_PlatformOscillates ==
  /\ []<>(movingPlat.movingConfig.startX < movingPlat.movingConfig.endX
            => movingPlat.x = movingPlat.movingConfig.endX)
  /\ []<>(movingPlat.movingConfig.startX < movingPlat.movingConfig.endX
            => movingPlat.x = movingPlat.movingConfig.startX)
  /\ []<>(movingPlat.movingConfig.startY < movingPlat.movingConfig.endY
            => movingPlat.y = movingPlat.movingConfig.endY)
  /\ []<>(movingPlat.movingConfig.startY < movingPlat.movingConfig.endY
            => movingPlat.y = movingPlat.movingConfig.startY)

-----------------------------------------------------------------------------
(* The player among platforms and pushables: small arrangements stepped for
   a few frames under every input of the alphabet *)

Box(id, x, y, w, h) ==
  [id |-> id, x |-> x, y |-> y, width |-> w, height |-> h, type |-> "box",
   vx |-> 0, vy |-> 0, isBeingPushed |-> FALSE]

\* two solid pillars whose gap is narrower than the player, who starts above
\* the gap or above the left pillar
GapLevel(startX) ==
  Level(40000, 40000, [x |-> startX, y |-> 14900],
        <<Platform("pillar-1", 0, 20000, 10000, 10000, "solid"),
          Platform("pillar-2", 12600, 20000, 10000, 10000, "solid")>>,
        <<>>, <<>>, <<>>, <<>>, <<>>, Rect(35000, 0, 1000, 1000))

\* a solid step beside a one-way ledge whose top is at 200; the step's top is
\* dy below it, and the step comes first or second in the array
StepLevel(dy, stepFirst, startY) ==
  LET step == Platform("step", 0, 20000 + dy, 10000, 10000, "solid")
      ledge == Platform("ledge", 8000, 20000, 10000, 2000, "one-way")
  IN  Level(40000, 40000, [x |-> 7000, y |-> startY],
            IF stepFirst THEN <<step, ledge>> ELSE <<ledge, step>>,
            <<>>, <<>>, <<>>, <<>>, <<>>, Rect(35000, 0, 1000, 1000))

\* a floor with a one-way ledge at waist height and a box to the right
FloorLevel(startX) ==
  Level(40000, 40000, [x |-> startX, y |-> 20000],
        <<Platform("floor", 0, 25000, 30000, 5000, "solid"),
          Platform("ledge", 0, 22000, 10000, 2000, "one-way")>>,
        <<>>, <<Box("box-1", 14000, 20000, 5000, 5000)>>,
        <<>>, <<>>, <<>>, Rect(35000, 0, 1000, 1000))

PlayerLevels ==
  {GapLevel(9800), GapLevel(6000),
   StepLevel(-200, TRUE, 14700), StepLevel(-200, FALSE, 14700),
   StepLevel(300, TRUE, 15200), StepLevel(300, FALSE, 15200),
   FloorLevel(6000), FloorLevel(10500)}

PlayerInputs ==
  {NoInput,
   InputState(FALSE, TRUE, FALSE, FALSE),
   InputState(FALSE, FALSE, TRUE, FALSE),
   InputState(FALSE, TRUE, FALSE, TRUE)}

\* frames taken from the initial state
MaxFrames == 4

InitPlayer == \E level \in PlayerLevels : InitPlaying(<<level>>)

NextPlayer == Frame(PlayerInputs, {100, 200}, MaxFrames)

SpecPlayer == InitPlayer /\ [][NextPlayer]_vars

\* the frame just taken ran updatePlayerPhysics on the player of the state
\* before it (the player was and stayed off the ropes)
PhysicsRan ==
  FrameRan /\ ~hist.prev.player.isOnRope /\ ~gs.player.isOnRope

\* the player of the frame just taken after lines 42-88
integrated == Integrate(hist.prev.player, hist.input, hist.dt)

\* the player the platform loop of the frame just taken handed to
\* checkPlatformCollision for platforms[i]
AtTurn(i) ==
  ResolvePlatforms(integrated, gs.levelData.platforms, i - 1, hist.prev.player.y)

\* the frame just taken moved the player less than one body height
MovedLessThanBody ==
  /\ Abs(integrated.x - hist.prev.player.x) < PLAYER_HEIGHT
  /\ Abs(integrated.y - hist.prev.player.y) < PLAYER_HEIGHT
  /\ Abs(gs.player.x - hist.prev.player.x) < PLAYER_HEIGHT
  /\ Abs(gs.player.y - hist.prev.player.y) < PLAYER_HEIGHT

\* C1: after a frame in which the player was alive and off the ropes and
\* moved less than one body height, the player's rectangle overlaps no
\* platform of type 'solid', however many platforms and pushables the frame
\* resolved.
C1_NoSolidOverlap ==
  PhysicsRan /\ MovedLessThanBody =>
    \A i \in 1..Len(gs.levelData.platforms) :
      gs.levelData.platforms[i].type = "solid" =>
        ~rectIntersect(getPlayerRect(gs.player), gs.levelData.platforms[i])

\* the landing conditions of a one-way platform, for a player and the y the
\* frame started from
LandsOn(player, platform, prevY) ==
  /\ platform.type = "one-way"
  /\ rectIntersect(getPlayerRect(player), platform)
  /\ prevY + PLAYER_HEIGHT <= platform.y + 5 * SCALE
  /\ player.vy >= 0

\* C2 as claimed: a frame whose integrated player overlaps a one-way platform,
\* with the feet at most 5 below its top before the frame and vy >= 0, ends
\* with the player on that platform: y = platform.y - height, vy = 0,
\* grounded, not jumping.
C2_LandsOnOverlapped ==
  PhysicsRan =>
    \A i \in 1..Len(gs.levelData.platforms) :
      LandsOn(integrated, gs.levelData.platforms[i], hist.prev.player.y) =>
        /\ gs.player.y = gs.levelData.platforms[i].y - PLAYER_HEIGHT
        /\ gs.player.vy = 0
        /\ gs.player.isGrounded
        /\ ~gs.player.isJumping

\* the player stands on or hangs under one of the platforms after platforms[i]
\* or one of the pushables
MovedByLater(i) ==
  \/ \E j \in (i + 1)..Len(gs.levelData.platforms) :
       LET q == gs.levelData.platforms[j]
       IN  gs.player.y = q.y - PLAYER_HEIGHT \/ gs.player.y = q.y + q.height
  \/ \E j \in 1..Len(gs.levelData.pushableObjects) :
       LET q == gs.levelData.pushableObjects[j]
       IN  gs.player.y = q.y - PLAYER_HEIGHT \/ gs.player.y = q.y + q.height

\* C2, amended: when the landing conditions hold at the one-way platform's
\* turn in the platform loop (for the player as the earlier platforms left
\* it), the frame ends with vy = 0, grounded and not jumping, and with
\* y = platform.y - height unless a later platform or a pushable moved the
\* player vertically, to its top or its bottom.
C2_LandsAtItsTurn ==
  PhysicsRan =>
    \A i \in 1..Len(gs.levelData.platforms) :
      LandsOn(AtTurn(i), gs.levelData.platforms[i], hist.prev.player.y) =>
        /\ gs.player.vy = 0
        /\ gs.player.isGrounded
        /\ ~gs.player.isJumping
        /\ \/ gs.player.y = gs.levelData.platforms[i].y - PLAYER_HEIGHT
           \/ MovedByLater(i)

\* a frame that landed the player on a one-way platform it fell onto
C2_Witness ==
  /\ PhysicsRan
  /\ \E i \in 1..Len(gs.levelData.platforms) :
       /\ LandsOn(AtTurn(i), gs.levelData.platforms[i], hist.prev.player.y)
       /\ integrated.vy > 0
       /\ gs.player.y = gs.levelData.platforms[i].y - PLAYER_HEIGHT
       /\ gs.player.isGrounded

\* platforms without platforms[i]
WithoutPlatform(platforms, i) ==
  SubSeq(platforms, 1, i - 1) \o SubSeq(platforms, i + 1, Len(platforms))

\* the frame just taken, had platforms[i] been absent from the platform loop
IfAbsent(i) ==
  updatePlayerPhysics(
    hist.prev.player, hist.input,
    [gs.levelData EXCEPT !.platforms = WithoutPlatform(gs.levelData.platforms, i)],
    hist.dt)

\* the player overlaps the one-way platforms[i] at its turn with the feet
\* more than 5 below its top before the frame, or while rising
PassesThrough(i) ==
  /\ gs.levelData.platforms[i].type = "one-way"
  /\ rectIntersect(getPlayerRect(AtTurn(i)), gs.levelData.platforms[i])
  /\ \/ hist.prev.player.y + PLAYER_HEIGHT > gs.levelData.platforms[i].y + 5 * SCALE
     \/ AtTurn(i).vy < 0

\* C3: a one-way platform the player overlaps with the feet more than 5 below
\* its top before the frame, or with negative vertical velocity, reports no
\* collision, and the frame leaves the player's position, velocity, isGrounded
\* and isJumping as it would without that platform.
C3_PassThrough ==
  PhysicsRan =>
    \A i \in 1..Len(gs.levelData.platforms) :
      PassesThrough(i) =>
        /\ ~checkPlatformCollision(AtTurn(i), gs.levelData.platforms[i],
                                   hist.prev.player.y).collides
        /\ gs.player.x = IfAbsent(i).x /\ gs.player.y = IfAbsent(i).y
        /\ gs.player.vx = IfAbsent(i).vx /\ gs.player.vy = IfAbsent(i).vy
        /\ gs.player.isGrounded = IfAbsent(i).isGrounded
        /\ gs.player.isJumping = IfAbsent(i).isJumping

\* a frame in which the rising player overlapped a one-way platform, and one
\* in which the player stood inside it, feet well below its top
C3_Witness ==
  /\ PhysicsRan
  /\ \E i \in 1..Len(gs.levelData.platforms) :
       /\ PassesThrough(i)
       /\ AtTurn(i).vy < 0 \/ gs.player.isGrounded
       /\ rectIntersect(getPlayerRect(gs.player), gs.levelData.platforms[i])

-----------------------------------------------------------------------------
(* The player and a rope *)

\* a rope of length 100 hanging straight down from (200, 50) between two
\* walls, above a floor
RopeLevel(startX, startY) ==
  Level(40000, 40000, [x |-> startX, y |-> startY],
        <<Platform("floor", -10000, 23000, 60000, 10000, "solid"),
          Platform("wall-l", -10000, -10000, 10000, 33000, "solid"),
          Platform("wall-r", 40000, -10000, 10000, 33000, "solid")>>,
        <<>>, <<>>, <<>>,
        <<Rope("rope-1", 20000, 5000, 10000, [sin |-> 0, cos |-> UNIT])>>,
        <<>>, Rect(35000, -9000, 1000, 1000))

\* the player starts in the air: below the rope's end, beside its middle
RopeLevels == {RopeLevel(18500, 16500), RopeLevel(15500, 8500)}

\* grab and swing right, grab and jump, jump and swing left
RopeInputs ==
  {InputState(FALSE, TRUE, FALSE, TRUE), InputState(FALSE, FALSE, TRUE, TRUE),
   InputState(TRUE, FALSE, TRUE, FALSE)}

RopeDts == {100, FRAME_CAP_DT}

\* frames taken from the initial state
MaxRopeFrames == 17

InitRope == \E level \in RopeLevels : InitPlaying(<<level>>)

NextRope ==
  /\ Frame(RopeInputs, RopeDts, MaxRopeFrames)
  /\ hist'.keyChanges <= MaxKeyChanges

SpecRope == InitRope /\ [][NextRope]_vars

\* the frame just taken started with the player on a rope
RopeStepRan == FrameRan /\ hist.prev.player.isOnRope

\* the cooldown checkRopeGrab computed in the frame just taken
decremented == Max(0, hist.prev.player.ropeGrabCooldown - 1)

\* C4: in each of the 14 steps after the step that attached the player, and
\* in no later step on the rope, the decremented cooldown is above 0; in such
\* a step the player stays on the same rope whatever the input, a held jump
\* included.
C4_CooldownKeepsAttached ==
  RopeStepRan =>
    /\ (hist.ropeSteps <= 14) <=> (decremented > 0)
    /\ decremented > 0 =>
         /\ gs.player.isOnRope
         /\ gs.player.attachedRopeId = hist.prev.player.attachedRopeId

\* jump is held in the 14th step after the attach, and the player stays on
\* the rope
C4_Witness ==
  /\ RopeStepRan
  /\ hist.ropeSteps = 14
  /\ hist.input.jump
  /\ gs.player.isOnRope

\* what checkRopeGrab returned in the frame just taken
grabbed ==
  checkRopeGrab(hist.prev.player, hist.prev.levelData.ropes, hist.input,
                ROPE_GRAB_DISTANCE).player

\* C5: in a step on the rope with jump held and the cooldown at zero,
\* checkRopeGrab returns the player detached (isOnRope false, attachedRopeId
\* null, ropeGrabCooldown 0, isJumping, 'jumping') with
\* velocity.y = min(old - 5, -3) <= -3, and the step ends detached; a release
\* never comes before the 15th step after the attach, and comes in the 15th
\* when jump is held in it.
C5_ReleaseAfterCooldown ==
  RopeStepRan =>
    /\ hist.input.jump /\ decremented = 0 =>
         /\ ~grabbed.isOnRope
         /\ grabbed.attachedRopeId = NULL
         /\ grabbed.ropeGrabCooldown = 0
         /\ grabbed.isJumping
         /\ grabbed.animationState = "jumping"
         /\ grabbed.vy = Min(hist.prev.player.vy - 5 * SCALE, -3 * SCALE)
         /\ grabbed.vy <= -3 * SCALE
         /\ ~gs.player.isOnRope
         /\ gs.player.attachedRopeId = NULL
         /\ gs.player.ropeGrabCooldown = 0
    /\ ~gs.player.isOnRope => hist.ropeSteps >= 15
    /\ hist.ropeSteps = 15 /\ hist.input.jump => ~gs.player.isOnRope

\* jump was held from the first frame, which attached the player, and the
\* 15th step after it released the player
C5_Witness ==
  /\ RopeStepRan
  /\ hist.frame = 16
  /\ hist.keyChanges = 1
  /\ hist.ropeSteps = 15
  /\ hist.input.jump
  /\ ~gs.player.isOnRope

\* the distance from a rope's anchor to a player's centre, as lines 1195-1197
\* compute it, in whole 1/SCALE
AnchorDistance(rope, player) ==
  Hypot(playerCenter(player).x - rope.anchorX,
        playerCenter(player).y - rope.anchorY)

\* C6: at the end of every step that leaves the player on a rope, the attach
\* step included, the distance from the rope's anchor to the player's centre
\* is at most 1.05 x the rope's length (to the resolution of the arithmetic,
\* 1/SCALE).
C6_RopeDistanceBound ==
  FrameRan /\ gs.player.isOnRope =>
    \A i \in 1..Len(gs.levelData.ropes) :
      gs.levelData.ropes[i].id = gs.player.attachedRopeId =>
        AnchorDistance(gs.levelData.ropes[i], gs.player)
          <= Mul(gs.levelData.ropes[i].length, 105)

\* a step attached the player from beyond 1.05 x the rope's length
C6_Witness ==
  /\ FrameRan
  /\ ~hist.prev.player.isOnRope
  /\ gs.player.isOnRope
  /\ \E i \in 1..Len(gs.levelData.ropes) :
       /\ gs.levelData.ropes[i].id = gs.player.attachedRopeId
       /\ AnchorDistance(gs.levelData.ropes[i], hist.prev.player)
            > Mul(gs.levelData.ropes[i].length, 105)

-----------------------------------------------------------------------------
(* The whole game: two levels with ropes, hazards and an exit *)

Hazard(id, x, y, w, h) ==
  [id |-> id, x |-> x, y |-> y, width |-> w, height |-> h, type |-> "spike",
   isActive |-> TRUE]

\* rope-1 above spikes on the floor, a saw in the way of a swing to the right
SwingLevel ==
  Level(40000, 40000, [x |-> 18500, y |-> 16500],
        <<Platform("floor", -10000, 23000, 60000, 10000, "solid"),
          Platform("wall-l", -10000, -10000, 10000, 33000, "solid"),
          Platform("wall-r", 40000, -10000, 10000, 33000, "solid")>>,
        <<Hazard("spikes-1", 15000, 21000, 5000, 2000),
          Hazard("saw-1", 22000, 10000, 5000, 10000)>>,
        <<>>, <<>>,
        <<Rope("rope-1", 20000, 5000, 10000, [sin |-> 0, cos |-> UNIT])>>,
        <<>>, Rect(35000, -9000, 1000, 1000))

\* rope-2 with the exit zone where the rope's end hangs
ExitLevel ==
  Level(40000, 40000, [x |-> 18500, y |-> 16500],
        <<Platform("floor", -10000, 23000, 60000, 10000, "solid"),
          Platform("wall-l", -10000, -10000, 10000, 33000, "solid"),
          Platform("wall-r", 40000, -10000, 10000, 33000, "solid")>>,
        <<>>, <<>>, <<>>,
        <<Rope("rope-2", 20000, 5000, 10000, [sin |-> 0, cos |-> UNIT])>>,
        <<>>, Rect(21000, 14000, 2000, 2000))

GameDts == {200}

\* bound on the death counter
MaxDeaths == 1

Init ==
  \E lvls \in {<<SwingLevel, ExitLevel>>, <<ExitLevel, SwingLevel>>} :
    InitGame(lvls)

GameFrame ==
  /\ Frame(RopeInputs, GameDts, -1)
  /\ hist'.keyChanges <= MaxKeyChanges
  /\ gs'.deathCount <= MaxDeaths

KillKey == debugKill /\ gs'.deathCount <= MaxDeaths

Next ==
  \/ GameFrame
  \/ startGame
  \/ togglePause
  \/ restartLevel
  \/ KillKey
  \/ nextLevel

Spec == Init /\ [][Next]_vars

\* C7: in every reachable game state attachedRopeId is non-null exactly when
\* isOnRope is true, and a non-null attachedRopeId is the id of a rope of the
\* current level.
C7_RopeIdIffOnRope ==
  /\ (gs.player.attachedRopeId # NULL) <=> gs.player.isOnRope
  /\ gs.player.attachedRopeId # NULL =>
       \E i \in 1..Len(gs.levelData.ropes) :
         gs.levelData.ropes[i].id = gs.player.attachedRopeId

\* the timer changed the level while the player hung on a rope of the old
\* level, and the new level's player is on no rope
C7_Witness ==
  /\ hist.act = "nextLevel"
  /\ hist.prev.player.isOnRope
  /\ hist.prev.player.attachedRopeId # NULL
  /\ ~gs.player.isOnRope
  /\ gs.player.attachedRopeId = NULL

-----------------------------------------------------------------------------
(* The player, a box, pressure plates, a lever and hazards *)

Switch(id, x, y, w, h, type, targetIds) ==
  [id |-> id, x |-> x, y |-> y, width |-> w, height |-> h, type |-> type,
   isActivated |-> FALSE, targetIds |-> targetIds]

\* the player stands left of a tall box; plate-1 and plate-3 are right of the
\* box, above the player's head; plate-2 is on the floor left of the player,
\* in front of the spikes it switches off; lever-1 is at the player's feet
\* and switches saw-2, which plate-3 switches too, and saw-3, which is its own
SwitchLevel ==
  Level(40000, 40000, [x |-> 11500, y |-> 20000],
        <<Platform("floor", -10000, 25000, 60000, 10000, "solid"),
          Platform("wall-l", -10000, -10000, 10000, 35000, "solid"),
          Platform("wall-r", 40000, -10000, 10000, 35000, "solid")>>,
        <<Hazard("spike-1", 6000, 23000, 5000, 2000),
          Hazard("saw-1", 30000, 20000, 5000, 5000),
          Hazard("saw-2", 30000, 10000, 5000, 5000),
          Hazard("saw-3", 30000, 0, 5000, 5000)>>,
        <<Box("box-1", 15000, 18000, 5000, 7000)>>,
        <<Switch("plate-1", 20100, 18500, 600, 1000, "pressurePlate", {"saw-1"}),
          Switch("plate-2", 10000, 24500, 1000, 500, "pressurePlate", {"spike-1"}),
          Switch("plate-3", 21500, 18500, 600, 1000, "pressurePlate", {"saw-2"}),
          Switch("lever-1", 12000, 24000, 1000, 1000, "lever", {"saw-2", "saw-3"})>>,
        <<>>, <<>>, Rect(35000, -9000, 1000, 1000))

SwitchInputs ==
  {NoInput, InputState(TRUE, FALSE, FALSE, FALSE),
   InputState(FALSE, TRUE, FALSE, TRUE)}

InitSwitch == InitPlaying(<<SwitchLevel>>)

SwitchFrame ==
  /\ Frame(SwitchInputs, GameDts, -1)
  /\ hist'.keyChanges <= MaxKeyChanges
  /\ gs'.deathCount <= MaxDeaths

NextSwitch ==
  \/ SwitchFrame
  \/ togglePause
  \/ restartLevel
  \/ KillKey

SpecSwitch == InitSwitch /\ [][NextSwitch]_vars

\* the player's rectangle strictly overlaps the rectangle inset by 20% of
\* the hazard's width and height on each side
InsideInset(player, hazard) ==
  /\ player.x < hazard.x + Mul(hazard.width, 20) + Mul(hazard.width, 60)
  /\ player.x + PLAYER_WIDTH > hazard.x + Mul(hazard.width, 20)
  /\ player.y < hazard.y + Mul(hazard.height, 20) + Mul(hazard.height, 60)
  /\ player.y + PLAYER_HEIGHT > hazard.y + Mul(hazard.height, 20)

\* C11: a step kills the player only if some hazard, active when the step
\* tests the hazards, has its inset rectangle (X + 0.2W, Y + 0.2H, 0.6W, 0.6H)
\* strictly overlapped by the player's rectangle; the outer margin and
\* inactive hazards never kill.
C11_KilledOnlyInsideInset ==
  FrameRan /\ gs.player.isDead =>
    \E i \in 1..Len(hist.prev.levelData.hazards) :
      /\ hist.prev.levelData.hazards[i].isActive
      /\ InsideInset(gs.player, hist.prev.levelData.hazards[i])

\* a step killed the player, who had survived the step before inside the
\* rectangle of a hazard
C11_Witness ==
  /\ FrameRan
  /\ gs.player.isDead
  /\ \E i \in 1..Len(hist.prev.levelData.hazards) :
       rectIntersect(getPlayerRect(hist.prev.player), hist.prev.levelData.hazards[i])

\* the player's rectangle or a pushable's overlaps the switch, in the
\* current state
Pressed(sw) ==
  \/ rectIntersect(getPlayerRect(gs.player), sw)
  \/ \E i \in 1..Len(gs.levelData.pushableObjects) :
       rectIntersect(gs.levelData.pushableObjects[i], sw)

\* every pressure plate is activated exactly when pressed, and every hazard
\* that it alone targets is active exactly when the plate is not activated
PlatesFollowOverlap ==
  \A k \in 1..Len(gs.levelData.switches) :
    gs.levelData.switches[k].type = "pressurePlate" =>
      /\ gs.levelData.switches[k].isActivated = Pressed(gs.levelData.switches[k])
      /\ \A i \in 1..Len(gs.levelData.hazards) :
           /\ gs.levelData.hazards[i].id \in gs.levelData.switches[k].targetIds
           /\ \A j \in 1..Len(gs.levelData.switches) :
                j # k => gs.levelData.hazards[i].id
                           \notin gs.levelData.switches[j].targetIds
           => gs.levelData.hazards[i].isActive
                = ~gs.levelData.switches[k].isActivated

C13_DeadFrameIsNoOp ==
  hist.act = "frame" /\ hist.prev.player.isDead => gs = hist.prev

\* a step was taken with the player dead, the camera still shaking and the
\* box still sliding
C13_Witness ==
  /\ hist.act = "frame"
  /\ hist.prev.player.isDead
  /\ hist.prev.camera.shake > 0
  /\ hist.prev.levelData.pushableObjects[1].vx # 0

-----------------------------------------------------------------------------
(* The player's flags and timers *)

\* C14: at the end of every step the player is not both jumping and
\* grounded.
C14_NotJumpingAndGrounded ==
  ~(gs.player.isJumping /\ gs.player.isGrounded)

\* a player who was in a jump has just landed
C14_Witness ==
  /\ PhysicsRan
  /\ hist.prev.player.isJumping /\ ~hist.prev.player.isGrounded
  /\ gs.player.isGrounded

\* C15: ropeGrabCooldown is an integer in 0..15 in every reachable state; a
\* step lowers it by at most 1, and only for a player who was on a rope.
C15_CooldownRange ==
  /\ gs.player.ropeGrabCooldown \in 0..15
  /\ hist.act = "frame" =>
       /\ gs.player.ropeGrabCooldown >= hist.prev.player.ropeGrabCooldown - 1
       /\ gs.player.ropeGrabCooldown < hist.prev.player.ropeGrabCooldown
            => hist.prev.player.isOnRope

\* the cooldown has been counted down from 15 to 0 on the rope and the player
\* is still hanging
C15_Witness ==
  /\ FrameRan
  /\ hist.ropeSteps > 15
  /\ hist.prev.player.ropeGrabCooldown = 0
  /\ gs.player.ropeGrabCooldown = 0
  /\ gs.player.isOnRope

\* the frame just taken stepped a player at rest on the ground with jump held
JumpFromRest ==
  /\ PhysicsRan
  /\ hist.prev.player.isGrounded /\ ~hist.prev.player.isJumping
  /\ hist.prev.player.vy = 0
  /\ hist.input.jump

\* the collision loops of the frame just taken moved the player vertically
\* (a 'top' or 'bottom' resolution)
ResolvedVertically == gs.player.y # integrated.y

\* C16 as stated: a player at rest on the ground stepped with jump held ends
\* the step with vertical velocity exactly -playerJumpForce, jumping and not
\* grounded.
C16_JumpVelocityIsJumpForce ==
  JumpFromRest =>
    /\ gs.player.vy = -playerJumpForce
    /\ gs.player.isJumping
    /\ ~gs.player.isGrounded

\* C16 (amended): the step sets the vertical velocity to -playerJumpForce and
\* then adds the step's gravity, so unless a collision stops the player
\* vertically the step ends with velocity -playerJumpForce + gravity * dt,
\* jumping and not grounded.
C16_JumpVelocityAfterGravity ==
  JumpFromRest =>
    /\ integrated.vy = -playerJumpForce + Mul(gravity, hist.dt)
    /\ integrated.isJumping
    /\ ~integrated.isGrounded
    /\ ~ResolvedVertically =>
         /\ gs.player.vy = -playerJumpForce + Mul(gravity, hist.dt)
         /\ gs.player.isJumping
         /\ ~gs.player.isGrounded

\* a player at rest on the ground has just jumped and left the ground
C16_Witness ==
  /\ JumpFromRest
  /\ ~ResolvedVertically
  /\ gs.player.y < hist.prev.player.y

\* C17 as stated: at the end of every step that leaves the player off the
\* ropes and in which jump is not held, the vertical velocity is at least
\* -playerJumpForce / 2.
C17_JumpCutEveryStep ==
  hist.act = "frame" /\ ~gs.player.isOnRope /\ ~hist.input.jump =>
    gs.player.vy >= -Mul(playerJumpForce, 50)

\* C17 (amended): the same at the end of every such step that starts with the
\* player alive.
C17_JumpCutWhenAlive ==
  FrameRan /\ ~gs.player.isOnRope /\ ~hist.input.jump =>
    gs.player.vy >= -Mul(playerJumpForce, 50)

\* a player rising faster than half the jump force was stepped off the ropes
\* without jump held and is still rising
C17_Witness ==
  /\ PhysicsRan
  /\ ~hist.input.jump
  /\ hist.prev.player.vy < -Mul(playerJumpForce, 50)
  /\ gs.player.vy < 0

\* platforms[i] was classified with the given direction in the platform loop
\* of the frame just taken
ClassifiedAs(i, direction) ==
  /\ PhysicsRan
  /\ i \in 1..Len(gs.levelData.platforms)
  /\ gs.levelData.platforms[i].type = "solid"
  /\ checkPlatformCollision(AtTurn(i), gs.levelData.platforms[i],
                            hist.prev.player.y).direction = direction

\* the resolution of platforms[i] left the vertical state alone
VerticalKept(i) ==
  /\ AtTurn(i + 1).y = AtTurn(i).y
  /\ AtTurn(i + 1).vy = AtTurn(i).vy
  /\ AtTurn(i + 1).isGrounded = AtTurn(i).isGrounded
  /\ AtTurn(i + 1).isJumping = AtTurn(i).isJumping

\* C18: a solid platform classified 'left' leaves the player with
\* velocity.x = 0 and x = platform.x + platform.width, a solid platform
\* classified 'right' with velocity.x = 0 and x = platform.x - player.width,
\* and neither changes y, velocity.y, isGrounded or isJumping.
C18_WallPush ==
  \A i \in 1..Len(gs.levelData.platforms) :
    /\ ClassifiedAs(i, "left") =>
         /\ AtTurn(i + 1).vx = 0
         /\ AtTurn(i + 1).x = gs.levelData.platforms[i].x
                                + gs.levelData.platforms[i].width
         /\ VerticalKept(i)
    /\ ClassifiedAs(i, "right") =>
         /\ AtTurn(i + 1).vx = 0
         /\ AtTurn(i + 1).x = gs.levelData.platforms[i].x - PLAYER_WIDTH
         /\ VerticalKept(i)

\* a player moving left has just been pushed out of a solid platform on the
\* left
C18_Witness ==
  \E i \in 1..Len(gs.levelData.platforms) :
    /\ ClassifiedAs(i, "left")
    /\ hist.input.left
    /\ AtTurn(i).vx < 0
    /\ AtTurn(i).x > gs.levelData.platforms[i].x

\* the frame just taken applied the jump impulse of lines 67-72
JumpImpulse ==
  PhysicsRan /\ ~hist.prev.player.isJumping /\ integrated.isJumping

\* C19: a step in which jump is held, after a step in which it was held
\* already, applies no jump impulse.
C19_JumpNeedsRisingEdge ==
  hist.act = "frame" /\ hist.lastJump /\ hist.input.jump => ~JumpImpulse

-----------------------------------------------------------------------------
(* gameUpdate on a state whose player is flagged on a rope the level does not
   have: the state updater is stepped from such states directly *)

\* ids that are the id of no rope of the level: none, and a rope that is gone
DanglingIds == {NULL, "rope-0"}

Dangling(player, id, cooldown) ==
  [player EXCEPT !.isOnRope = TRUE, !.attachedRopeId = id,
                 !.ropeGrabCooldown = cooldown, !.animationState = "swinging"]

InitDangling ==
  \E level \in RopeLevels, id \in DanglingIds, cooldown \in {0, 1, 2, 15} :
    LET playing == [createInitialGameState(<<level>>, 0) EXCEPT !.isPlaying = TRUE]
        state == [playing EXCEPT !.player = Dangling(playing.player, id, cooldown)]
    IN  /\ levels = <<level>>
        /\ gs = state
        /\ showStartScreen = FALSE
        /\ inputState = NoInput
        /\ heldKeys = {}
        /\ timers = <<>>
        /\ hist = [act |-> "startGame", input |-> NoInput, dt |-> 0,
                   prev |-> state, frame |-> 0,
                   keyChanges |-> 0, ropeSteps |-> 0, lastJump |-> FALSE]

NextDangling ==
  /\ Frame(RopeInputs \cup {NoInput}, GameDts, MaxFrames)
  /\ hist'.keyChanges <= MaxKeyChanges

SpecDangling == InitDangling /\ [][NextDangling]_vars

\* the frame just taken started with the player flagged on a rope whose id
\* no rope of the level has
DanglingStep ==
  /\ FrameRan
  /\ hist.prev.player.isOnRope
  /\ \A i \in 1..Len(hist.prev.levelData.ropes) :
       hist.prev.levelData.ropes[i].id # hist.prev.player.attachedRopeId

-----------------------------------------------------------------------------
(* Levers and buttons *)

\* switches[k] is a lever or a button
Latching(k) == gs.levelData.switches[k].type \in {"lever", "button"}

\* the hazards of the state that switches[k] targets and no other switch does
OnlyTargets(k) ==
  {i \in 1..Len(gs.levelData.hazards) :
     /\ gs.levelData.hazards[i].id \in gs.levelData.switches[k].targetIds
     /\ \A j \in 1..Len(gs.levelData.switches) :
          j # k => gs.levelData.hazards[i].id \notin gs.levelData.switches[j].targetIds}

\* the player the frame just taken ended with touches switches[k] with action
\* held
ActsOn(k) ==
  /\ rectIntersect(getPlayerRect(gs.player), gs.levelData.switches[k])
  /\ hist.input.action

\* an activated lever or button keeps its own targets off, and no event that
\* keeps the level's data deactivates it or activates it other than a frame
\* of a live player acting on it
LatchHolds(k) ==
  /\ gs.levelData.switches[k].isActivated =>
       \A i \in OnlyTargets(k) : ~gs.levelData.hazards[i].isActive
  /\ hist.act \in {"frame", "restartLevel", "debugKill", "togglePause"} =>
       /\ hist.prev.levelData.switches[k].isActivated
            => gs.levelData.switches[k].isActivated
       /\ ~hist.prev.levelData.switches[k].isActivated
            /\ gs.levelData.switches[k].isActivated => FrameRan /\ ActsOn(k)

\* C21 as stated: a lever or button is activated by the first step that ends
\* with the player's rectangle on it and action held, and from then on stays
\* activated, with the hazards only it targets inactive, through input,
\* movement, death and restart.
C21_LatchOnFirstTouch ==
  \A k \in 1..Len(gs.levelData.switches) :
    Latching(k) =>
      /\ hist.act = "frame" /\ ActsOn(k) => gs.levelData.switches[k].isActivated
      /\ LatchHolds(k)

\* C21 (amended): the same, the activating step being the first such step
\* that starts with the player alive.
C21_LatchOnFirstLiveTouch ==
  \A k \in 1..Len(gs.levelData.switches) :
    Latching(k) =>
      /\ FrameRan /\ ActsOn(k) => gs.levelData.switches[k].isActivated
      /\ LatchHolds(k)

\* the lever was pulled, the player died and was restarted, and a later step
\* ends with the player off the lever, the lever activated and saw-3 inactive
C21_Witness ==
  /\ FrameRan
  /\ gs.deathCount > 0
  /\ Latching(4)
  /\ gs.levelData.switches[4].isActivated
  /\ ~rectIntersect(getPlayerRect(gs.player), gs.levelData.switches[4])
  /\ OnlyTargets(4) # {}
  /\ \A i \in OnlyTargets(4) : ~gs.levelData.hazards[i].isActive

-----------------------------------------------------------------------------
(* Diagonal paths *)

\* the frame just taken stepped a platform whose path has both axes
DiagonalStep ==
  /\ FrameRan
  /\ movingPlat.movingConfig.startX # movingPlat.movingConfig.endX
  /\ movingPlat.movingConfig.startY # movingPlat.movingConfig.endY

\* C22: on a diagonal path a frame that brings the platform to an endpoint on
\* one axis and not on the other leaves the direction of travel on the other
\* axis as it was.
C22_AxesIndependent ==
  LET c == movingPlat.movingConfig
      d0 == movingPlatBefore.movingConfig.currentDirection
  IN  DiagonalStep =>
        /\ (RawX >= c.endX \/ RawX <= c.startX)
             /\ c.startY < RawY /\ RawY < c.endY
             => movingPlat.y = RawY /\ c.currentDirection = d0
        /\ (RawY >= c.endY \/ RawY <= c.startY)
             /\ c.startX < RawX /\ RawX < c.endX
             => movingPlat.x = RawX /\ c.currentDirection = d0

-----------------------------------------------------------------------------
(* Grabbing and the animation state *)

\* the player the pushable loop of the frame just taken handed to
\* checkPushableCollision for pushableObjects[j]
AtPushableTurn(j) ==
  ResolvePushables(AtTurn(Len(gs.levelData.platforms) + 1),
                   gs.levelData.pushableObjects, j - 1,
                   hist.prev.player.y, hist.input)

\* the frame just taken had side contact with a pushable while action was
\* held
SideContact ==
  /\ hist.input.action
  /\ \E j \in 1..Len(gs.levelData.pushableObjects) :
       checkPushableCollision(AtPushableTurn(j), gs.levelData.pushableObjects[j],
                              hist.prev.player.y).direction \in {"left", "right"}

\* C23: isGrabbing is true at the end of a step only if that step had side
\* contact with a pushable while action was held.
C23_GrabbingOneFrame ==
  PhysicsRan /\ gs.player.isGrabbing => SideContact

-----------------------------------------------------------------------------
(* hooks/useInput.ts: the keyboard *)

KEY_BINDINGS ==
  [left |-> {"ArrowLeft", "KeyA"},
   right |-> {"ArrowRight", "KeyD"},
   jump |-> {"ArrowUp", "KeyW", "Space"},
   action |-> {"KeyE", "ShiftLeft", "ShiftRight"}]

\* the keys pressed and released: two of one intent, one of each other
\* intent, one that is bound to nothing
KeyCodes ==
  {"ArrowLeft", "KeyA", "ArrowRight", "ArrowUp", "Space", "KeyE", "KeyR"}

isKeyMatching(code, keys) == code \in keys

\* lines 19-36; a key that is down already repeats its keydown
handleKeyDown ==
  \E code \in KeyCodes :
    /\ heldKeys' = heldKeys \cup {code}
    /\ inputState' =
         [left |-> IF isKeyMatching(code, KEY_BINDINGS.left)
                   THEN TRUE ELSE inputState.left,
          right |-> IF isKeyMatching(code, KEY_BINDINGS.right)
                    THEN TRUE ELSE inputState.right,
          jump |-> IF isKeyMatching(code, KEY_BINDINGS.jump)
                   THEN TRUE ELSE inputState.jump,
          action |-> IF isKeyMatching(code, KEY_BINDINGS.action)
                     THEN TRUE ELSE inputState.action]
    /\ UNCHANGED <<gs, showStartScreen, timers, levels, hist>>

\* lines 38-45
handleKeyUp ==
  \E code \in heldKeys :
    /\ heldKeys' = heldKeys \ {code}
    /\ inputState' =
         [left |-> IF isKeyMatching(code, KEY_BINDINGS.left)
                   THEN FALSE ELSE inputState.left,
          right |-> IF isKeyMatching(code, KEY_BINDINGS.right)
                    THEN FALSE ELSE inputState.right,
          jump |-> IF isKeyMatching(code, KEY_BINDINGS.jump)
                   THEN FALSE ELSE inputState.jump,
          action |-> IF isKeyMatching(code, KEY_BINDINGS.action)
                     THEN FALSE ELSE inputState.action]
    /\ UNCHANGED <<gs, showStartScreen, timers, levels, hist>>

InitInput == InitGame(<<SwitchLevel>>)

NextInput == handleKeyDown \/ handleKeyUp

SpecInput == InitInput /\ [][NextInput]_vars

\* the intent has a key bound to it that is down
Held(intent) == KEY_BINDINGS[intent] \cap heldKeys # {}

\* C24: after any sequence of keydown and keyup events each intent flag is
\* true exactly when a key bound to the intent is down.
C24_FlagsFollowHeldKeys ==
  /\ inputState.left <=> Held("left")
  /\ inputState.right <=> Held("right")
  /\ inputState.jump <=> Held("jump")
  /\ inputState.action <=> Held("action")

-----------------------------------------------------------------------------
(* A long fall: rope-1 hangs over a pit deep enough for the player to reach
   the fall-speed clamp before the floor *)

DeepLevel ==
  Level(40000, 50000, [x |-> 18500, y |-> 16500],
        <<Platform("floor", -10000, 45000, 60000, 10000, "solid"),
          Platform("wall-l", -10000, -10000, 10000, 55000, "solid"),
          Platform("wall-r", 40000, -10000, 10000, 55000, "solid")>>,
        <<>>, <<>>, <<>>,
        <<Rope("rope-1", 20000, 5000, 10000, [sin |-> 0, cos |-> UNIT])>>,
        <<>>, Rect(35000, -9000, 1000, 1000))

InitFall == InitPlaying(<<DeepLevel>>)

\* grab and release, and no key
FallInputs == {InputState(FALSE, FALSE, TRUE, TRUE), NoInput}

NextFall ==
  /\ Frame(FallInputs, RopeDts, -1)
  /\ hist'.keyChanges <= MaxKeyChanges

SpecFall == InitFall /\ [][NextFall]_vars

\* C25: at the end of every step in which the player is alive and not on a
\* rope, |velocity.y| <= maxFallSpeed, the step of a rope release included.
C25_VerticalSpeedBound ==
  hist.act = "frame" /\ ~gs.player.isDead /\ ~gs.player.isOnRope =>
    Abs(gs.player.vy) <= maxFallSpeed

\* a player who let go of the rope with a jump has fallen until gravity would
\* have taken the velocity past maxFallSpeed, and the step ends at maxFallSpeed
C25_Witness ==
  /\ PhysicsRan
  /\ gs.player.isJumping
  /\ hist.prev.player.vy + Mul(gravity, hist.dt) > maxFallSpeed
  /\ gs.player.vy = maxFallSpeed

\* C26: in every step the vertical displacement of the player, velocity.y * dt
\* with the velocity clamped to maxFallSpeed and dt capped by the scheduler,
\* is less than the player's height.
C26_StepShorterThanBody ==
  PhysicsRan => Abs(Mul(integrated.vy, hist.dt)) < PLAYER_HEIGHT

\* C27: after every step of a live player animationState is 'dying' if the
\* step killed the player, 'swinging' on a rope, and otherwise a function of
\* the final flags and velocity: 'pushing' if isGrabbing; in the air
\* 'jumping' if velocity.y < 0, else 'falling'; on the ground 'running' if
\* |velocity.x| > 0.8 * playerSpeed, 'walking' if |velocity.x| > 0.5, else
\* 'idle'.
C27_AnimationFromFinalState ==
  LET p == gs.player
  IN  FrameRan =>
        p.animationState =
          IF p.isDead THEN "dying"
          ELSE IF p.isOnRope THEN "swinging"
          ELSE IF p.isGrabbing THEN "pushing"
          ELSE IF ~p.isGrounded /\ p.vy < 0 THEN "jumping"
          ELSE IF ~p.isGrounded THEN "falling"
          ELSE IF 100 * Abs(p.vx) > 80 * playerSpeed THEN "running"
          ELSE IF 2 * Abs(p.vx) > SCALE THEN "walking"
          ELSE "idle"

\* a walking player on the ground, slower than 0.8 * playerSpeed
C27_Witness ==
  /\ PhysicsRan
  /\ ~gs.player.isDead
  /\ gs.player.isGrounded
  /\ ~gs.player.isGrabbing
  /\ 2 * Abs(gs.player.vx) > SCALE
  /\ 100 * Abs(gs.player.vx) <= 80 * playerSpeed
  /\ gs.player.animationState = "walking"

-----------------------------------------------------------------------------
(* Grabbing a rope *)

\* the frame just taken took the player from off the ropes onto a rope
Attached == FrameRan /\ ~hist.prev.player.isOnRope /\ gs.player.isOnRope

\* C28: a step attaches the player only if, in the state it starts from,
\* action is held, the player is airborne (not grounded, or moving up) and
\* the player's centre is closer than the grab distance to the closest point
\* of some rope within its parametric range [0.3, 1].
C28_GrabPrecondition ==
  Attached =>
    /\ hist.input.action
    /\ ~hist.prev.player.isGrounded \/ hist.prev.player.vy < 0
    /\ \E i \in 1..Len(hist.prev.levelData.ropes) :
         /\ RopeDistance(hist.prev.player, hist.prev.levelData.ropes[i])
              < ROPE_GRAB_DISTANCE
         /\ gs.player.attachedRopeId = hist.prev.levelData.ropes[i].id

\* a player in the air after a jump from the ground has grabbed the rope
C28_Witness ==
  /\ Attached
  /\ hist.lastJump
  /\ hist.prev.player.isJumping

-----------------------------------------------------------------------------
(* checkPlatformCollision on a player inside a solid block: the block is a
   tall post or a wide slab, and the player starts at positions chosen so
   that the first frames hand the function equal and unequal overlaps *)

BlockLevel(w, h, startX, startY) ==
  Level(40000, 40000, [x |-> startX, y |-> startY],
        <<Platform("block", 10000, 10000, w, h, "solid")>>,
        <<>>, <<>>, <<>>, <<>>, <<>>, Rect(35000, 0, 1000, 1000))

InitOverlap ==
  \/ \E x \in {8900, 9000, 9100}, y \in {7920, 11920, 15920} :
       InitPlaying(<<BlockLevel(1000, 9000, x, y)>>)
  \/ \E x \in {8000, 11000, 13000, 15000, 17000},
        y \in {5920, 7820, 7920, 8020, 9920} :
       InitPlaying(<<BlockLevel(9000, 1000, x, y)>>)

SpecOverlap == InitOverlap /\ [][NextPlayer]_vars

\* the four overlaps of the player handed to checkPlatformCollision for
\* platforms[i] in the frame just taken
Overlaps(i) ==
  LET p == gs.levelData.platforms[i]
  IN  [left |-> AtTurn(i).x + PLAYER_WIDTH - p.x,
       right |-> p.x + p.width - AtTurn(i).x,
       top |-> AtTurn(i).y + PLAYER_HEIGHT - p.y,
       bottom |-> p.y + p.height - AtTurn(i).y]

\* platforms[i] is solid and overlapped the player at its turn
SolidOverlap(i) ==
  /\ PhysicsRan
  /\ gs.levelData.platforms[i].type = "solid"
  /\ rectIntersect(getPlayerRect(AtTurn(i)), gs.levelData.platforms[i])

\* C30: for an overlapping solid platform checkPlatformCollision reports the
\* horizontal axis when min(left, right) < min(top, bottom) and the vertical
\* axis otherwise, on the axis the smaller overlap ('left' and 'bottom' when
\* the two are equal), and the overlap it reports is the smallest of the
\* four.
C30_MinimumOverlapDirection ==
  \A i \in 1..Len(gs.levelData.platforms) :
    SolidOverlap(i) =>
      LET o == Overlaps(i)
          result == checkPlatformCollision(AtTurn(i), gs.levelData.platforms[i],
                                           hist.prev.player.y)
      IN  /\ result.collides
          /\ result.overlap = Min(Min(o.left, o.right), Min(o.top, o.bottom))
          /\ Min(o.left, o.right) < Min(o.top, o.bottom) =>
               /\ o.left < o.right =>
                    result.direction = "right" /\ result.overlap = o.left
               /\ o.left >= o.right =>
                    result.direction = "left" /\ result.overlap = o.right
          /\ Min(o.left, o.right) >= Min(o.top, o.bottom) =>
               /\ o.top < o.bottom =>
                    result.direction = "top" /\ result.overlap = o.top
               /\ o.top >= o.bottom =>
                    result.direction = "bottom" /\ result.overlap = o.bottom

\* the block was handed a player whose smaller horizontal overlap equals the
\* smaller vertical one
C30_Witness ==
  /\ SolidOverlap(1)
  /\ Min(Overlaps(1).left, Overlaps(1).right)
       = Min(Overlaps(1).top, Overlaps(1).bottom)

-----------------------------------------------------------------------------
(* Standing still.  Level 2's upper walkway: v-plat-4 ends 20 units after
   walkway-1 begins, both tops at 220, v-plat-4 first in the array; the
   player starts at rest on walkway-1, clear of v-plat-4 *)

SeamLevel ==
  Level(200000, 72000, [x |-> 112200, y |-> 17000],
        <<Platform("v-plat-4", 100000, 22000, 12000, 2000, "solid"),
          Platform("walkway-1", 110000, 22000, 40000, 2000, "solid")>>,
        <<>>, <<>>, <<>>, <<>>, <<>>, Rect(190000, 0, 1000, 1000))

\* frames taken on the walkway
MaxSeamFrames == 8

NextSeam ==
  Frame({NoInput, InputState(TRUE, FALSE, FALSE, FALSE)}, {200, FRAME_CAP_DT},
        MaxSeamFrames)

SpecSeam == InitPlaying(<<SeamLevel>>) /\ [][NextSeam]_vars

\* C31: a live player at rest on top of a solid platform (bottom edge flush
\* with the platform top, velocity 0), horizontally inside it by more than
\* the distance gravity moves the player in the frame, and stepped with no
\* input, ends the step grounded, with velocity.y = 0 and at the same
\* position.
C31_RestingIsStable ==
  \A i \in 1..Len(gs.levelData.platforms) :
    LET before == hist.prev.player
        p == gs.levelData.platforms[i]
        penetration == integrated.y - before.y
    IN  ( /\ PhysicsRan /\ ~before.isDead
          /\ hist.input = NoInput
          /\ p.type = "solid"
          /\ before.vx = 0 /\ before.vy = 0
          /\ before.y + PLAYER_HEIGHT = p.y
          /\ before.x + PLAYER_WIDTH - p.x > penetration
          /\ p.x + p.width - before.x > penetration )
        => /\ gs.player.isGrounded
           /\ gs.player.vy = 0
           /\ gs.player.x = before.x
           /\ gs.player.y = before.y

-----------------------------------------------------------------------------
(* Checkpoints and respawn: cp-1 and cp-2 stand 2 units apart to the right of
   the player, cp-1 first in the array and nearer to a player who comes from
   the left; cp-3 stands to the left, spikes and a saw that overlaps them lie
   beyond the pair *)

CheckpointLevel ==
  Level(40000, 40000, [x |-> 11500, y |-> 20000],
        <<Platform("floor", -10000, 25000, 60000, 10000, "solid"),
          Platform("wall-l", -10000, -10000, 10000, 35000, "solid"),
          Platform("wall-r", 40000, -10000, 10000, 35000, "solid")>>,
        <<Hazard("spike-1", 22000, 23000, 5000, 2000),
          Hazard("saw-1", 22200, 20000, 5000, 5000)>>,
        <<>>, <<>>, <<>>,
        <<[id |-> "cp-1", x |-> 16000, y |-> 20000, width |-> 4000,
           height |-> 5000, isActivated |-> FALSE],
          [id |-> "cp-2", x |-> 16200, y |-> 21000, width |-> 4000,
           height |-> 4000, isActivated |-> FALSE],
          [id |-> "cp-3", x |-> 5000, y |-> 20000, width |-> 4000,
           height |-> 5000, isActivated |-> FALSE]>>,
        Rect(35000, -9000, 1000, 1000))

SpecCheckpoint == InitPlaying(<<CheckpointLevel>>) /\ [][NextSwitch]_vars

\* C32: within a level an activated checkpoint stays activated, across frames,
\* death and restart; lastCheckpoint changes only in a frame whose resulting
\* player rectangle overlaps a checkpoint that was not activated before the
\* frame, and becomes (cp.x, cp.y + cp.height - player height) of such a
\* checkpoint, so touching only activated checkpoints leaves it alone.
C32_CheckpointLatch ==
  LET before == hist.prev.levelData.checkpoints
      after == gs.levelData.checkpoints
  IN  hist.act \notin {"init", "nextLevel"} =>
        /\ Len(after) = Len(before)
        /\ \A n \in 1..Len(before) :
             before[n].isActivated => after[n].isActivated
        /\ gs.lastCheckpoint # hist.prev.lastCheckpoint =>
             /\ hist.act = "frame"
             /\ \E n \in 1..Len(before) :
                  /\ ~before[n].isActivated
                  /\ rectIntersect(getPlayerRect(gs.player), before[n])
                  /\ gs.lastCheckpoint =
                       Point(before[n].x,
                             before[n].y + before[n].height - PLAYER_HEIGHT)

\* the player respawned on two activated checkpoints and a frame kept the
\* respawn point, having latched another checkpoint before
C32_Witness ==
  /\ hist.act = "frame" /\ ~hist.prev.player.isDead
  /\ gs.deathCount > 0
  /\ \A n \in 1..3 : gs.levelData.checkpoints[n].isActivated
  /\ \E n \in 1..3 :
       /\ hist.prev.levelData.checkpoints[n].isActivated
       /\ rectIntersect(getPlayerRect(gs.player), gs.levelData.checkpoints[n])
  /\ gs.lastCheckpoint = hist.prev.lastCheckpoint

\* C33: when the frame's resulting player rectangle overlaps two or more
\* checkpoints that were not activated before the frame, the respawn point
\* the frame records belongs to the one of them nearest to the player
\* (centre to centre).
C33_NearestCheckpointWins ==
  LET before == hist.prev.levelData.checkpoints
      centre == playerCenter(gs.player)
      Distance2(cp) == (cp.x + cp.width \div 2 - centre.x)
                         * (cp.x + cp.width \div 2 - centre.x)
                       + (cp.y + cp.height \div 2 - centre.y)
                           * (cp.y + cp.height \div 2 - centre.y)
      touched == {n \in 1..Len(before) :
                    /\ ~before[n].isActivated
                    /\ rectIntersect(getPlayerRect(gs.player), before[n])}
  IN  hist.act = "frame" /\ ~hist.prev.player.isDead /\ Cardinality(touched) >= 2
        => \E n \in touched :
             /\ \A m \in touched : Distance2(before[n]) <= Distance2(before[m])
             /\ gs.lastCheckpoint =
                  Point(before[n].x, before[n].y + before[n].height - PLAYER_HEIGHT)

\* C34: restartLevel replaces the player with a fresh one (alive, off the
\* ropes, not grabbing, velocity 0, cooldown 0) at lastCheckpoint if one has
\* been latched and at the level's playerStart otherwise, clears isPaused, and
\* leaves deathCount, lastCheckpoint, currentLevel and the level's entities as
\* they were.
C34_Respawn ==
  hist.act = "restartLevel" =>
    LET before == hist.prev
        respawnPoint == IF before.lastCheckpoint.set THEN before.lastCheckpoint
                        ELSE before.levelData.playerStart
    IN  /\ ~gs.player.isDead /\ ~gs.player.isOnRope
        /\ gs.player.attachedRopeId = NULL
        /\ ~gs.player.isGrabbing
        /\ gs.player.vx = 0 /\ gs.player.vy = 0
        /\ gs.player.ropeGrabCooldown = 0
        /\ gs.player.x = respawnPoint.x /\ gs.player.y = respawnPoint.y
        /\ ~gs.isPaused
        /\ gs.deathCount = before.deathCount
        /\ gs.lastCheckpoint = before.lastCheckpoint
        /\ gs.currentLevel = before.currentLevel
        /\ gs.levelData = before.levelData

\* a dead player who had moved on from a latched checkpoint was respawned
\* there
C34_Witness ==
  /\ hist.act = "restartLevel"
  /\ hist.prev.player.isDead
  /\ hist.prev.lastCheckpoint.set
  /\ hist.prev.player.x # hist.prev.lastCheckpoint.x
  /\ gs.player.x = hist.prev.lastCheckpoint.x

\* C35: a frame increases deathCount by exactly 1 if and only if the player
\* goes from alive to dead in it, also when the player overlaps several active
\* hazards at once; every other frame leaves it unchanged, and neither frames
\* nor restarts decrease it.
C35_DeathCounting ==
  LET dies == ~hist.prev.player.isDead /\ gs.player.isDead
  IN  /\ hist.act = "frame" =>
           gs.deathCount = hist.prev.deathCount + (IF dies THEN 1 ELSE 0)
      /\ hist.act = "restartLevel" => gs.deathCount = hist.prev.deathCount

\* the player died in a frame that ended inside two active hazards, and the
\* counter went up by one
C35_Witness ==
  /\ hist.act = "frame"
  /\ ~hist.prev.player.isDead /\ gs.player.isDead
  /\ Cardinality({i \in 1..Len(gs.levelData.hazards) :
                    checkHazardCollision(gs.player, gs.levelData.hazards[i])}) >= 2
  /\ gs.deathCount = hist.prev.deathCount + 1

-----------------------------------------------------------------------------
(* Pushing: a box on the floor between two walls, one of them 6 units from
   the box; the player starts beside the box, on the side away from that
   wall; a second box starts 350 units above the floor, beyond the right
   wall.  In a third level the floor ends 4 units right of the box, above a
   pit 50 units deep *)

PushLevel(startX, wallLeft, wallRight, floorRight) ==
  Level(40000, 40000, [x |-> startX, y |-> 20000],
        <<Platform("floor", -10000, 25000, floorRight + 10000, 5000, "solid"),
          Platform("pit", -10000, 30000, 70000, 5000, "solid"),
          Platform("wall-l", wallLeft - 10000, -10000, 10000, 35000, "solid"),
          Platform("wall-r", wallRight, -10000, 10000, 35000, "solid")>>,
        <<>>,
        <<Box("box-1", 20000, 20000, 5000, 5000),
          Box("box-2", 45000, -15000, 5000, 5000)>>,
        <<>>, <<>>, <<>>, Rect(35000, -9000, 1000, 1000))

NextPush ==
  /\ Frame({NoInput, InputState(TRUE, FALSE, FALSE, FALSE),
            InputState(TRUE, FALSE, FALSE, TRUE),
            InputState(FALSE, TRUE, FALSE, TRUE)}, {100, 200}, -1)
  /\ hist'.keyChanges <= MaxKeyChanges

SpecPush ==
  /\ \/ InitPlaying(<<PushLevel(16500, 5000, 25600, 60000)>>)
     \/ InitPlaying(<<PushLevel(25500, 19400, 35000, 60000)>>)
     \/ InitPlaying(<<PushLevel(16500, 5000, 35000, 25400)>>)
  /\ [][NextPush]_vars

\* C36: after a frame a pushable has isBeingPushed exactly when, on the player
\* and the pushable of the state before, the player is grounded, action is
\* held, one of the player's vertical edges is within 10 units of the
\* pushable's facing edge and the player overlaps the pushable's body shrunk
\* by 10 units at top and bottom.  Its horizontal velocity becomes +PUSH_SPEED
\* only with right held and the player at its left edge, -PUSH_SPEED only
\* with left held and the player at its right edge; a pushable that is not
\* pushed has its horizontal velocity multiplied by 0.8 whatever the frame
\* time (a wall it runs into then stops it).
C36_PushActivation ==
  hist.act = "frame" /\ ~hist.prev.player.isDead =>
    \A j \in 1..Len(gs.levelData.pushableObjects) :
      LET player == hist.prev.player
          before == hist.prev.levelData.pushableObjects[j]
          after == gs.levelData.pushableObjects[j]
          atLeft == Abs(player.x + PLAYER_WIDTH - before.x) < 10 * SCALE
          atRight == Abs(player.x - (before.x + before.width)) < 10 * SCALE
          inBody == /\ player.y + PLAYER_HEIGHT > before.y + 10 * SCALE
                    /\ player.y < before.y + before.height - 10 * SCALE
          pushed == /\ player.isGrounded /\ hist.input.action
                    /\ atLeft \/ atRight
                    /\ inBody
      IN  /\ after.isBeingPushed <=> pushed
          /\ after.vx = PUSH_SPEED /\ before.vx # PUSH_SPEED =>
               pushed /\ hist.input.right /\ atLeft
          /\ after.vx = -PUSH_SPEED /\ before.vx # -PUSH_SPEED =>
               pushed /\ hist.input.left /\ atRight
          /\ ~pushed => after.vx \in {Mul(before.vx, 80), 0}

\* a pushed box was released and slid on at 0.8 of its speed
C36_Witness ==
  /\ hist.act = "frame" /\ ~hist.prev.player.isDead
  /\ hist.prev.levelData.pushableObjects[1].isBeingPushed
  /\ hist.prev.levelData.pushableObjects[1].vx = -PUSH_SPEED
  /\ ~gs.levelData.pushableObjects[1].isBeingPushed
  /\ gs.levelData.pushableObjects[1].vx = -Mul(PUSH_SPEED, 80)

\* C37: every pushable, starting from velocity (0, 0), keeps
\* |velocity.x| <= PUSH_SPEED and |velocity.y| <= 20 after every step, pushed
\* or not.
C37_PushableVelocityBounds ==
  \A j \in 1..Len(gs.levelData.pushableObjects) :
    /\ Abs(gs.levelData.pushableObjects[j].vx) <= PUSH_SPEED
    /\ Abs(gs.levelData.pushableObjects[j].vy) <= 20 * SCALE

\* the falling box has reached 20 units a frame while the other box is
\* pushed at PUSH_SPEED
C37_Witness ==
  /\ hist.act = "frame"
  /\ gs.levelData.pushableObjects[2].vy = 20 * SCALE
  /\ hist.prev.levelData.pushableObjects[2].vy = 20 * SCALE
  /\ Abs(gs.levelData.pushableObjects[1].vx) = PUSH_SPEED

\* C38: after every frame no pushable strictly overlaps a platform, provided
\* it overlapped none before the frame and moved less than its own size; and
\* a pushable at rest on a platform top (bottom edge flush with the top,
\* vertical velocity 0, over the platform before the frame and after the
\* frame's own movement) stays at y = platform.y - height with
\* velocity.y = 0.
C38_PushablesDoNotSink ==
  hist.act = "frame" /\ ~hist.prev.player.isDead =>
    \A j \in 1..Len(gs.levelData.pushableObjects) :
      LET before == hist.prev.levelData.pushableObjects[j]
          after == gs.levelData.pushableObjects[j]
          platforms == gs.levelData.platforms
          over(q, p) == q.x < p.x + p.width /\ q.x + q.width > p.x
      IN  /\ ( /\ \A i \in 1..Len(platforms) : ~rectIntersect(before, platforms[i])
               /\ Abs(after.x - before.x) < before.width
               /\ Abs(after.y - before.y) < before.height )
             => \A i \in 1..Len(platforms) : ~rectIntersect(after, platforms[i])
          /\ \A i \in 1..Len(platforms) :
               ( /\ before.y + before.height = platforms[i].y
                 /\ before.vy = 0
                 /\ over(before, platforms[i])
                 /\ over(updatePushable(before, hist.prev.player, <<>>,
                                        hist.input, hist.dt),
                         platforms[i]) )
               => after.y = before.y /\ after.vy = 0

-----------------------------------------------------------------------------
(* The moving platforms of the shipped levels: moving-1 of level 1, moving-2
   and moving-3 of level 2, each at the start of its path *)

ShippedMovingPlatforms ==
  {MovingPlatform("moving-1", 200000, 50000, 10000, 2000,
                  200000, 210000, 50000, 50000, 150, 1),
   MovingPlatform("moving-2", 150000, 40000, 10000, 2000,
                  150000, 150000, 40000, 22000, 200, 1),
   MovingPlatform("moving-3", 270000, 50000, 12000, 2000,
                  270000, 285000, 50000, 50000, 150, 1)}

SpecShipped ==
  /\ \E platform \in ShippedMovingPlatforms : InitPlaying(<<PlatLevel(platform)>>)
  /\ [][NextPlat]_vars

\* C39: in every frame a moving platform of the shipped levels changes its
\* coordinate on an active axis (start # end) by at most speed * dt; it never
\* jumps from one endpoint of its path to the other.
C39_PlatformsMoveContinuously ==
  FrameRan =>
    LET c == movingPlatBefore.movingConfig
        reach == Mul(c.speed, hist.dt)
    IN  /\ c.startX # c.endX => Abs(movingPlat.x - movingPlatBefore.x) <= reach
        /\ c.startY # c.endY => Abs(movingPlat.y - movingPlatBefore.y) <= reach

-----------------------------------------------------------------------------
(* Level completion *)

\* C40: currentLevel changes only when a scheduled nextLevel timer fires, and
\* then it goes up by exactly 1, for a timer scheduled by a frame of the
\* current level, or back to 0 with the start screen, for a timer scheduled
\* on the last level; however many timers the frames in the exit zone have
\* scheduled and in whatever order timers and frames run, no level is
\* skipped.
C40_AdvancesOneLevel ==
  [][gs'.currentLevel # gs.currentLevel =>
       /\ timers # <<>> /\ timers' = Tail(timers)
       /\ \/ /\ gs'.currentLevel = gs.currentLevel + 1
             /\ Head(timers) = gs.currentLevel
          \/ /\ gs'.currentLevel = 0 /\ showStartScreen'
             /\ Head(timers) = Len(levels) - 1]_vars

\* a second timer of the same completion fired after the level had changed
\* and left currentLevel where the first had put it
C40_Witness ==
  /\ hist.act = "nextLevel"
  /\ hist.prev.currentLevel = 1
  /\ gs.currentLevel = 1
  /\ ~showStartScreen

====
